---------------------------- MODULE Spec2Model ----------------------------
(***************************************************************************)
(* Model of the poster layout engine of strava_poster_builder:             *)
(*   project-strava-api/poster/visual_components.py  (renderers)           *)
(*   project-strava-api/poster/poster_generator.py   (orchestration)       *)
(*   project-strava-api/poster/formatters.py         (textual statistics)  *)
(*   project-strava-api/poster/template_manager.py   (composition)         *)
(*   project-strava-api/poster/color_palette.py      (colours)             *)
(*                                                                         *)
(* Python floats are modelled as exact rationals <<n, d>> in lowest terms  *)
(* with d > 0, so that ratios, clamps and comparisons are computed the way *)
(* the code computes them, without binary rounding noise.                  *)
(***************************************************************************)
EXTENDS Integers, Sequences, FiniteSets, TLC

VARIABLES pc, args, ret, activity, template_content, placeholder_dimensions,
          replacements, components, poster, custom_colors, composite,
          user_service, strava_service, network, files, now

vars == <<pc, args, ret, activity, template_content, placeholder_dimensions,
          replacements, components, poster, custom_colors, composite,
          user_service, strava_service, network, files, now>>

\* the web services are not involved in the poster specifications
ServicesIdle ==
  /\ user_service = <<>>
  /\ strava_service = <<>>
  /\ network = <<>>
  /\ files = <<>>
  /\ now = 0

---------------------------------------------------------------------------
(* Exact rational arithmetic standing for Python float arithmetic.         *)

Abs(x) == IF x < 0 THEN -x ELSE x

RECURSIVE GCD(_, _)
GCD(a, b) == IF b = 0 THEN a ELSE GCD(b, a % b)

Rat(n, d) ==
  LET s == IF d < 0 THEN -1 ELSE 1
      g == GCD(Abs(n), Abs(d))
  IN  <<(s * n) \div g, (s * d) \div g>>

Num(n) == <<n, 1>>
Zero == <<0, 1>>

RAdd(a, b) == Rat(a[1] * b[2] + b[1] * a[2], a[2] * b[2])
RSub(a, b) == Rat(a[1] * b[2] - b[1] * a[2], a[2] * b[2])
RMul(a, b) == Rat(a[1] * b[1], a[2] * b[2])
RDiv(a, b) == Rat(a[1] * b[2], a[2] * b[1])
RLt(a, b) == a[1] * b[2] < b[1] * a[2]
RLe(a, b) == a[1] * b[2] <= b[1] * a[2]
RMin(a, b) == IF RLe(a, b) THEN a ELSE b
RMax(a, b) == IF RLe(a, b) THEN b ELSE a

\* Python floor division and round() (round half to even) on a float.
RFloor(a) == a[1] \div a[2]
RRound(a) ==
  LET f == RFloor(a)
      twice == RSub(RMul(Num(2), a), Num(2 * f))   \* 2 * (a - f) in [0, 2)
  IN  IF RLt(twice, Num(1)) THEN f
      ELSE IF RLt(Num(1), twice) THEN f + 1
      ELSE IF f % 2 = 0 THEN f ELSE f + 1

RECURSIVE Pow10(_)
Pow10(k) == IF k = 0 THEN 1 ELSE 10 * Pow10(k - 1)

\* f"{x:.kf}": the decimal string with k digits, as the number it denotes.
Fmt(a, k) == Rat(RRound(RMul(a, Num(Pow10(k)))), Pow10(k))

RECURSIVE SeqMin(_)
SeqMin(s) == IF Len(s) = 1 THEN s[1] ELSE RMin(s[1], SeqMin(Tail(s)))
RECURSIVE SeqMax(_)
SeqMax(s) == IF Len(s) = 1 THEN s[1] ELSE RMax(s[1], SeqMax(Tail(s)))

---------------------------------------------------------------------------
(* Region sizes: the dimensions argument of the renderers.  None and the   *)
(* empty dict are both falsy in Python and are modelled by NoDims.         *)

NoDims == [present |-> FALSE, width |-> Zero, height |-> Zero]
Dims(w, h) == [present |-> TRUE, width |-> w, height |-> h]

min_dimension == 10

\* a floor that clamps each dimension on its own
FloorClampEachAxis(new_width, new_height, original_ratio) ==
  <<RMax(new_width, Num(min_dimension)), RMax(new_height, Num(min_dimension))>>

\* visual_components.py:66-77: the floor on the scaled pair
FloorClamp(new_width, new_height, original_ratio) ==
  IF RLt(new_width, Num(min_dimension)) \/ RLt(new_height, Num(min_dimension))
  THEN IF RLt(new_width, new_height)
       THEN <<Num(min_dimension), RDiv(Num(min_dimension), original_ratio)>>
       ELSE <<RMul(Num(min_dimension), original_ratio), Num(min_dimension)>>
  ELSE <<new_width, new_height>>

\* a scale that fills the region instead of fitting it
ScaleToFill(max_width, max_height, original_width, original_height) ==
  RMax(RDiv(max_width, original_width), RDiv(max_height, original_height))

\* visual_components.py:55-60: the scale applied to both axes
ScaleToFit(max_width, max_height, original_width, original_height) ==
  RMin(RDiv(max_width, original_width), RDiv(max_height, original_height))

\* VisualComponents.calculate_responsive_dimensions
calculate_responsive_dimensions(template_dimensions, original_width, original_height) ==
  IF ~template_dimensions.present
  THEN [raised |-> FALSE, width |-> original_width, height |-> original_height]
  ELSE IF original_width = Zero \/ original_height = Zero
  THEN [raised |-> TRUE, width |-> Zero, height |-> Zero]   \* ZeroDivisionError
  ELSE
    LET max_width == template_dimensions.width
        max_height == template_dimensions.height
        original_ratio == IF RLt(Zero, original_height)
                          THEN RDiv(original_width, original_height)
                          ELSE Num(1)
        scale == ScaleToFit(max_width, max_height, original_width, original_height)
        new_width == RMul(original_width, scale)
        new_height == RMul(original_height, scale)
        clamped == FloorClamp(new_width, new_height, original_ratio)
    IN  [raised |-> FALSE, width |-> clamped[1], height |-> clamped[2]]

---------------------------------------------------------------------------
(* Graphic fragments: the markup a renderer returns, kept as its           *)
(* primitives.  kind "empty" is the empty string, "text" a lone <text>     *)
(* element, "group" a <g> container.                                       *)

Fragment(kind, id, label, center, rects, paths, circles, ticks) ==
  [kind |-> kind, id |-> id, label |-> label, center |-> center, rects |-> rects,
   paths |-> paths, circles |-> circles, ticks |-> ticks]

EmptyFragment == Fragment("empty", "", "", <<Zero, Zero>>, <<>>, <<>>, <<>>, <<>>)
TextFragment(label, cx, cy) ==
  Fragment("text", "", label, <<cx, cy>>, <<>>, <<>>, <<>>, <<>>)

NO_GPS_DATA == "Pas de données GPS"
GPS_ERROR == "Erreur GPS"

---------------------------------------------------------------------------
(* Pace histogram.  A split is [ok, km, pace]; ok = FALSE stands for an    *)
(* entry without a usable 'pace_min_per_km' (missing key, None entry), on  *)
(* which line 115 raises.                                                  *)

Split(km, pace) == [ok |-> TRUE, km |-> km, pace |-> pace]
BadSplit == [ok |-> FALSE, km |-> 0, pace |-> Zero]

\* visual_components.py:115, the filter of the split loop
KeptSplit(split) == RLt(Zero, split.pace) /\ RLt(split.pace, Num(20))

SeqMap(Op(_), s) == [i \in 1..Len(s) |-> Op(s[i])]
PaceOf(split) == split.pace

\* visual_components.py:122-139, the heights of the bars
NormalizedHeights(paces, max_height) ==
  LET max_pace == SeqMax(paces)
      Invert(pace) == RAdd(RSub(max_pace, pace), Num(1))
      inverted_paces == SeqMap(Invert, paces)
      chart_height == RSub(max_height, Num(10))
      min_bar_height == RMax(Num(3), RMul(chart_height, Rat(8, 100)))
      usable_height == RSub(chart_height, min_bar_height)
      max_inverted == SeqMax(inverted_paces)
      min_inverted == SeqMin(inverted_paces)
      range_inverted == RSub(max_inverted, min_inverted)
      Normalize(val) ==
        RAdd(min_bar_height,
             RMul(RDiv(RSub(val, min_inverted), range_inverted), usable_height))
  IN  IF RLt(Zero, range_inverted)
      THEN SeqMap(Normalize, inverted_paces)
      ELSE [i \in 1..Len(paces) |-> RDiv(chart_height, Num(2))]

\* visual_components.py:154-174, the Y axis tick values in seconds
YTicksSeconds(paces) ==
  LET min_pace_seconds == RRound(RMul(SeqMin(paces), Num(60)))
      max_pace_seconds == RRound(RMul(SeqMax(paces), Num(60)))
      min_y_seconds == (min_pace_seconds \div 10) * 10
      max_y_seconds == ((max_pace_seconds \div 10) + 1) * 10
  IN  [k \in 1..(((max_y_seconds - min_y_seconds) \div 10) + 1) |->
         min_y_seconds + 10 * (k - 1)]

\* visual_components.py:186-189: a tick inside [min_pace, max_pace]
TickShown(paces, seconds) ==
  /\ RLe(SeqMin(paces), Rat(seconds, 60))
  /\ RLe(Rat(seconds, 60), SeqMax(paces))

\* visual_components.py:189 divides by max_pace - min_pace for each shown tick
TickDivisionByZero(paces) ==
  /\ SeqMin(paces) = SeqMax(paces)
  /\ \E i \in DOMAIN YTicksSeconds(paces) : TickShown(paces, YTicksSeconds(paces)[i])

\* VisualComponents.create_pace_histogram_svg
create_pace_histogram_svg(km_splits, dimensions) ==
  IF km_splits = <<>> THEN EmptyFragment
  ELSE IF \E i \in DOMAIN km_splits : ~km_splits[i].ok THEN EmptyFragment   \* except
  ELSE
    LET responsive_dims == calculate_responsive_dimensions(dimensions, Num(95), Num(48))
        available_width == responsive_dims.width
        max_height == responsive_dims.height
        kept == SelectSeq(km_splits, KeptSplit)
        paces == SeqMap(PaceOf, kept)
    IN  IF paces = <<>> THEN EmptyFragment
        ELSE IF TickDivisionByZero(paces) THEN EmptyFragment   \* except
        ELSE
          LET normalized_heights == NormalizedHeights(paces, max_height)
              chart_height == RSub(max_height, Num(10))
              n == Len(paces)
              y_axis_margin == RMax(Num(15), RMul(available_width, Rat(15, 100)))
              chart_width == RSub(RSub(available_width, y_axis_margin), Num(10))
              margin_left == RAdd(Num(5), y_axis_margin)
              spacing == RMax(Rat(1, 2), RMul(chart_width, Rat(1, 100)))
              total_spacing == IF n > 1 THEN RMul(Num(n - 1), spacing) ELSE Zero
              bar_width == RMin(RDiv(RSub(chart_width, total_spacing), Num(n)),
                                RMax(Num(8), RMul(chart_width, Rat(1, 10))))
              total_bars_width == RAdd(RMul(Num(n), bar_width), total_spacing)
              start_x == RAdd(margin_left,
                              RDiv(RSub(chart_width, total_bars_width), Num(2)))
              bars_start_x == RSub(start_x, Num(5))
              min_pace == SeqMin(paces)
              max_pace == SeqMax(paces)
              ticks_seconds == YTicksSeconds(paces)
              Shown(seconds) == TickShown(paces, seconds)
              Tick(seconds) ==
                [seconds |-> seconds,
                 y |-> RMul(RDiv(RSub(Rat(seconds, 60), min_pace),
                                 RSub(max_pace, min_pace)), chart_height),
                 label |-> <<seconds \div 60, seconds % 60>>]
              Bar(i) ==
                [km |-> kept[i].km,
                 x |-> RAdd(bars_start_x, RMul(Num(i - 1), RAdd(bar_width, spacing))),
                 y |-> RSub(chart_height, normalized_heights[i]),
                 width |-> bar_width,
                 height |-> normalized_heights[i]]
          IN  Fragment("group", "pace-histogram", "", <<Num(5), Num(5)>>,
                       [i \in 1..n |-> Bar(i)], <<>>, <<>>,
                       SeqMap(Tick, SelectSeq(ticks_seconds, Shown)))

---------------------------------------------------------------------------
(* GPS coordinates.  A coordinate is [ok, v]: v is the list [lat, lon] or  *)
(* [lat, lon, alt] (or a shorter, malformed list); ok = FALSE stands for an *)
(* entry that is no list at all (None, a number), on which indexing and    *)
(* len() raise TypeError.                                                  *)

Coord(v) == [ok |-> TRUE, v |-> v]
BadCoord == [ok |-> FALSE, v |-> <<>>]

\* coord[k] evaluates without raising
Indexable(coord, k) == coord.ok /\ Len(coord.v) >= k

Lats(coordinates) == [i \in 1..Len(coordinates) |-> Num(coordinates[i].v[1])]
Lons(coordinates) == [i \in 1..Len(coordinates) |-> Num(coordinates[i].v[2])]

\* a range taken without the guard
UnguardedRange(lo, hi) == RSub(hi, lo)

\* the zero-range guard of visual_components.py:264-270, 339-340, 785-786
GuardedRange(lo, hi) == IF RSub(hi, lo) = Zero THEN Rat(1, 1000) ELSE RSub(hi, lo)

\* visual_components.py:273
GpsMargin(map_width, map_height) ==
  RMin(Num(10), RMul(RMin(map_width, map_height), Rat(8, 100)))

\* visual_components.py:275-279: the projection of every point, before formatting
GpsProjection(coordinates, map_width, map_height) ==
  LET lats == Lats(coordinates)
      lons == Lons(coordinates)
      min_lat == SeqMin(lats)
      max_lat == SeqMax(lats)
      min_lon == SeqMin(lons)
      lat_range == GuardedRange(min_lat, max_lat)
      lon_range == GuardedRange(min_lon, SeqMax(lons))
      margin == GpsMargin(map_width, map_height)
  IN  [i \in 1..Len(coordinates) |->
         <<RAdd(margin, RMul(RDiv(RSub(lons[i], min_lon), lon_range),
                             RSub(map_width, RMul(Num(2), margin)))),
           RAdd(margin, RMul(RDiv(RSub(max_lat, lats[i]), lat_range),
                             RSub(map_height, RMul(Num(2), margin))))>>]

FmtPoint(p, k) == <<Fmt(p[1], k), Fmt(p[2], k)>>

\* "for lat, lon in coordinates" (visual_components.py:277) unpacks exactly two values
UnpacksAsPair(coord) == coord.ok /\ Len(coord.v) = 2

\* a no-data test that only catches the empty list
NoCoordinates(coordinates) == Len(coordinates) = 0

\* visual_components.py:252, 327, 761: "not coordinates or len(coordinates) < 2"
TooFewCoordinates(coordinates) == Len(coordinates) < 2

\* a zero range reaching the divisions of the projection raises ZeroDivisionError
ZeroRange(coordinates) ==
  \/ GuardedRange(SeqMin(Lats(coordinates)), SeqMax(Lats(coordinates))) = Zero
  \/ GuardedRange(SeqMin(Lons(coordinates)), SeqMax(Lons(coordinates))) = Zero

\* VisualComponents.create_gps_map_svg
create_gps_map_svg(coordinates, dimensions) ==
  LET responsive_dims == calculate_responsive_dimensions(dimensions, Num(170), Num(120))
      map_width == responsive_dims.width
      map_height == responsive_dims.height
      center_x == RDiv(map_width, Num(2))
      center_y == RDiv(map_height, Num(2))
      error_text ==
        IF dimensions.present
        THEN TextFragment(GPS_ERROR, RDiv(dimensions.width, Num(2)),
                          RDiv(dimensions.height, Num(2)))
        ELSE TextFragment(GPS_ERROR, Num(85), Num(60))
  IN  IF TooFewCoordinates(coordinates)
      THEN TextFragment(NO_GPS_DATA, center_x, center_y)
      ELSE IF \E i \in DOMAIN coordinates : ~Indexable(coordinates[i], 2)
      THEN error_text                                          \* except, lines 257-258
      ELSE IF \E i \in DOMAIN coordinates : ~UnpacksAsPair(coordinates[i])
      THEN error_text                                          \* except, line 277
      ELSE IF ZeroRange(coordinates)
      THEN error_text                                          \* except, lines 278-279
      ELSE
        LET points == GpsProjection(coordinates, map_width, map_height)
            svg_points == [i \in 1..Len(points) |-> FmtPoint(points[i], 2)]
            smaller == RMin(map_width, map_height)
            stroke_width == RMax(Rat(3, 2), RMul(smaller, Rat(12, 1000)))
            circle_radius == RMax(Num(2), RMul(smaller, Rat(15, 1000)))
        IN  Fragment("group", "gps-track", "", <<Zero, Zero>>, <<>>,
                     <<[pts |-> svg_points, fill |-> "none", stroke |-> "map",
                        stroke_width |-> stroke_width]>>,
                     <<[c |-> svg_points[1], r |-> circle_radius, fill |-> "start"],
                       [c |-> svg_points[Len(svg_points)], r |-> circle_radius,
                        fill |-> "end"]>>,
                     <<>>)

\* normalize_coord of create_elevation_profile_svg / create_gpx_track_svg
NormalizeTrack(coordinates, track_width, track_height) ==
  LET lats == Lats(coordinates)
      lons == Lons(coordinates)
      min_lon == SeqMin(lons)
      max_lat == SeqMax(lats)
      lat_range == GuardedRange(SeqMin(lats), max_lat)
      lon_range == GuardedRange(min_lon, SeqMax(lons))
  IN  [i \in 1..Len(coordinates) |->
         <<RMul(RDiv(RSub(lons[i], min_lon), lon_range), track_width),
           RMul(RDiv(RSub(max_lat, lats[i]), lat_range), track_height)>>]

\* the path and the two circles both track renderers emit
TrackPrimitives(coordinates, track_width, track_height) ==
  LET points == NormalizeTrack(coordinates, track_width, track_height)
      fmt == [i \in 1..Len(points) |-> FmtPoint(points[i], 1)]
      smaller == RMin(track_width, track_height)
      stroke_width == RMax(Num(2), RMul(smaller, Rat(16, 1000)))
      circle_radius == RMax(Num(3), RMul(smaller, Rat(25, 1000)))
  IN  [paths |-> <<[pts |-> fmt, fill |-> "none", stroke |-> "map",
                    stroke_width |-> stroke_width]>>,
       circles |-> <<[c |-> fmt[1], r |-> circle_radius, fill |-> "start"],
                     [c |-> fmt[Len(fmt)], r |-> circle_radius, fill |-> "end"]>>]

\* VisualComponents.create_elevation_profile_svg
create_elevation_profile_svg(coordinates, dimensions) ==
  IF TooFewCoordinates(coordinates) THEN EmptyFragment
  ELSE IF \E i \in DOMAIN coordinates : ~Indexable(coordinates[i], 2)
  THEN EmptyFragment                                           \* except
  ELSE IF ZeroRange(coordinates) THEN EmptyFragment            \* except
  ELSE
    LET lats == Lats(coordinates)
        lons == Lons(coordinates)
        lat_range == GuardedRange(SeqMin(lats), SeqMax(lats))
        lon_range == GuardedRange(SeqMin(lons), SeqMax(lons))
        track_aspect_ratio == RDiv(lon_range, lat_range)
        original_width == RMul(Num(100), track_aspect_ratio)
        original_height == Num(100)
        responsive_dims ==
          calculate_responsive_dimensions(dimensions, original_width, original_height)
        track_width == responsive_dims.width
        track_height == responsive_dims.height
        available_width == IF dimensions.present THEN dimensions.width ELSE track_width
        available_height == IF dimensions.present THEN dimensions.height ELSE track_height
        margin_x == RDiv(RSub(available_width, track_width), Num(2))
        margin_y == RDiv(RSub(available_height, track_height), Num(2))
        prims == TrackPrimitives(coordinates, track_width, track_height)
    IN  Fragment("group", "", "", <<Fmt(margin_x, 1), Fmt(margin_y, 1)>>, <<>>,
                 prims.paths, prims.circles, <<>>)

\* VisualComponents.create_gpx_track_svg
create_gpx_track_svg(coordinates, dimensions) ==
  IF TooFewCoordinates(coordinates) THEN EmptyFragment
  ELSE IF \E i \in DOMAIN coordinates : ~Indexable(coordinates[i], 2)
  THEN EmptyFragment                                           \* except
  ELSE IF ZeroRange(coordinates) THEN EmptyFragment            \* except
  ELSE
    LET responsive_dims == calculate_responsive_dimensions(dimensions, Num(170), Num(120))
        prims == TrackPrimitives(coordinates, responsive_dims.width, responsive_dims.height)
    IN  Fragment("elements", "", "", <<Zero, Zero>>, <<>>, prims.paths, prims.circles, <<>>)

---------------------------------------------------------------------------
(* Inputs of the renderer specifications.                                  *)

MaxSplits == 3
MaxCoords == 3

RegionSides == {5, 12, 48, 95, 170, 400}
Regions ==
  {NoDims, Dims(Zero, Zero)} \cup {Dims(Num(w), Num(h)) : w \in RegionSides, h \in RegionSides}

\* the source sizes the renderers pass (95x48, 170x120, 100*ratio x 100) and a
\* degenerate one
Sources ==
  {<<Num(95), Num(48)>>, <<Num(170), Num(120)>>, <<Num(100), Num(100)>>,
   <<Num(100000), Num(100)>>, <<Rat(1, 10), Num(100)>>, <<Num(48), Num(95)>>,
   <<Num(95), Zero>>}

PaceValues == {Zero, Num(5), Rat(101, 20), Rat(129, 25), Num(6), Num(7), Num(20)}
SplitEntries == {Split(0, p) : p \in PaceValues} \cup {BadSplit}
SplitLists ==
  LET Numbered(f) == [i \in 1..Len(f) |-> [f[i] EXCEPT !.km = i]]
  IN  {Numbered(f) : f \in UNION {[1..n -> SplitEntries] : n \in 0..MaxSplits}}
HistRegions ==
  {NoDims, Dims(Num(95), Num(48)), Dims(Num(400), Num(170)), Dims(Num(95), Num(12)),
   Dims(Num(95), Num(13)), Dims(Num(5), Num(5)), Dims(Num(48), Num(400))}

LatValues == {0, 1, 3}
LonValues == {0, 2}
CoordEntries ==
  {Coord(<<lat, lon>>) : lat \in LatValues, lon \in LonValues}
    \cup {Coord(<<lat, (2 * lat) % 4, 100 + lat>>) : lat \in LatValues}
    \cup {Coord(<<1>>), BadCoord}
CoordLists == UNION {[1..n -> CoordEntries] : n \in 0..MaxCoords}
TrackRegions ==
  {NoDims, Dims(Num(170), Num(120)), Dims(Num(50), Num(50)), Dims(Num(400), Num(95)),
   Dims(Num(5), Num(5)), Dims(Zero, Zero)}

NoActivity ==
  [name |-> [kind |-> "absent", atoms |-> <<>>], km_splits |-> <<>>, coordinates |-> <<>>,
   distance |-> [kind |-> "absent", val |-> 0],
   moving_time |-> [kind |-> "absent", val |-> 0]]

\* the poster variables, unused while a single function is exercised
PosterIdle ==
  /\ activity = NoActivity
  /\ template_content = <<>>
  /\ placeholder_dimensions = <<>>
  /\ replacements = <<>>
  /\ components = <<>>
  /\ poster = <<>>
  /\ custom_colors = <<>>
  /\ composite = <<>>
  /\ ServicesIdle

PosterUnchanged ==
  UNCHANGED <<activity, template_content, placeholder_dimensions, replacements,
              components, poster, custom_colors, composite,
              user_service, strava_service, network, files, now>>

---------------------------------------------------------------------------
(* SpecDims: calculate_responsive_dimensions applied to every target and   *)
(* source of the input sets.                                               *)

InitDims ==
  /\ pc = "call"
  /\ args \in [target : Regions, source : Sources]
  /\ ret = [raised |-> FALSE, width |-> Zero, height |-> Zero]
  /\ PosterIdle

CalcDims ==
  /\ pc = "call"
  /\ ret' = calculate_responsive_dimensions(args.target, args.source[1], args.source[2])
  /\ pc' = "done"
  /\ UNCHANGED args
  /\ PosterUnchanged

NextDims == CalcDims

SpecDims == InitDims /\ [][NextDims]_vars

---------------------------------------------------------------------------
(* SpecHist: create_pace_histogram_svg applied to every split list.        *)

InitHist ==
  /\ pc = "call"
  /\ args \in [km_splits : SplitLists, dimensions : HistRegions]
  /\ ret = EmptyFragment
  /\ PosterIdle

PaceHistogram ==
  /\ pc = "call"
  /\ ret' = create_pace_histogram_svg(args.km_splits, args.dimensions)
  /\ pc' = "done"
  /\ UNCHANGED args
  /\ PosterUnchanged

NextHist == PaceHistogram

SpecHist == InitHist /\ [][NextHist]_vars

---------------------------------------------------------------------------
(* SpecTrack: the three coordinate renderers applied to every coordinate   *)
(* list.                                                                   *)

InitTrack ==
  /\ pc = "call"
  /\ args \in [coordinates : CoordLists, dimensions : TrackRegions]
  /\ ret = EmptyFragment
  /\ PosterIdle

GpsMap ==
  /\ pc = "call"
  /\ ret' = create_gps_map_svg(args.coordinates, args.dimensions)
  /\ pc' = "gps_map"
  /\ UNCHANGED args
  /\ PosterUnchanged

ElevationProfile ==
  /\ pc = "call"
  /\ ret' = create_elevation_profile_svg(args.coordinates, args.dimensions)
  /\ pc' = "elevation_profile"
  /\ UNCHANGED args
  /\ PosterUnchanged

GpxTrack ==
  /\ pc = "call"
  /\ ret' = create_gpx_track_svg(args.coordinates, args.dimensions)
  /\ pc' = "gpx_track"
  /\ UNCHANGED args
  /\ PosterUnchanged

NextTrack == GpsMap \/ ElevationProfile \/ GpxTrack

SpecTrack == InitTrack /\ [][NextTrack]_vars

---------------------------------------------------------------------------
(* Textual statistics (formatters.py).  A numeric activity field is        *)
(* [kind, val]: "absent" (key missing), "none" (key present, value None)   *)
(* or "num".                                                               *)

Absent == [kind |-> "absent", val |-> 0]
None == [kind |-> "none", val |-> 0]
Number(n) == [kind |-> "num", val |-> n]

\* activity_data.get(key, 0)
GetOrZero(field) == IF field.kind = "absent" THEN 0 ELSE field.val

Str(text) == [kind |-> "string", text |-> text, num |-> Zero, hm |-> <<0, 0>>]
Quantity(unit, num) == [kind |-> "string", text |-> unit, num |-> num, hm |-> <<0, 0>>]
Clock(unit, a, b) == [kind |-> "string", text |-> unit, num |-> Zero, hm |-> <<a, b>>]

\* DataFormatters.format_duration
format_duration(duration_seconds) ==
  IF duration_seconds <= 0 THEN Clock("m", 0, 0)
  ELSE LET hours == duration_seconds \div 3600
           minutes == (duration_seconds % 3600) \div 60
       IN  IF hours > 0 THEN Clock("hm", hours, minutes) ELSE Clock("m", 0, minutes)

\* DataFormatters.format_speed
format_speed(speed_kmh) ==
  IF RLe(speed_kmh, Zero) THEN Str("-- km/h") ELSE Quantity("km/h", Fmt(speed_kmh, 1))

\* DataFormatters.format_pace
format_pace(pace_min_per_km) ==
  IF RLe(pace_min_per_km, Zero) THEN Str("--:--")
  ELSE LET minutes == RFloor(pace_min_per_km)
           seconds == RFloor(RMul(RSub(pace_min_per_km, Num(minutes)), Num(60)))
       IN  Clock(":", minutes, seconds)

\* formatters.py:27-29: None / 1000 and None <= 0 raise TypeError
StatisticsRaise(act) == act.distance.kind = "none" \/ act.moving_time.kind = "none"

\* DataFormatters.format_activity_statistics
format_activity_statistics(act) ==
  [ACTIVITY_NAME |-> IF act.name.kind = "absent" THEN Str("Activité Strava") ELSE act.name,
   DISTANCE |-> Quantity("km", Fmt(Rat(GetOrZero(act.distance), 1000), 1)),
   DURATION |-> format_duration(GetOrZero(act.moving_time)),
   ELEVATION_GAIN |-> Str("-- m"),
   ACTIVITY_TYPE |-> Str("Activité")]

\* DataFormatters.create_poster_replacements, for an activity without dates
\* and without start_latlng
create_poster_replacements(act) ==
  LET stats == format_activity_statistics(act)
      base == [n \in {"ACTIVITY_NAME", "DISTANCE", "DURATION", "ELEVATION_GAIN",
                      "ACTIVITY_TYPE", "CITY", "DATE"} |->
                 CASE n = "CITY" -> Str("Lieu inconnu")
                   [] n = "DATE" -> Str("Date inconnue")
                   [] n = "ACTIVITY_NAME" -> stats.ACTIVITY_NAME
                   [] n = "DISTANCE" -> stats.DISTANCE
                   [] n = "DURATION" -> stats.DURATION
                   [] n = "ELEVATION_GAIN" -> stats.ELEVATION_GAIN
                   [] OTHER -> stats.ACTIVITY_TYPE]
      speed_kmh == RMul(Rat(GetOrZero(act.distance), GetOrZero(act.moving_time)),
                        Rat(36, 10))
  IN  IF GetOrZero(act.distance) > 0 /\ GetOrZero(act.moving_time) > 0
      THEN ("AVERAGE_SPEED" :> format_speed(speed_kmh))
             @@ ("AVERAGE_PACE" :> format_pace(RDiv(Num(60), speed_kmh))) @@ base
      ELSE base

---------------------------------------------------------------------------
(* Template text (template_manager.py).  A text is a sequence of atoms:    *)
(* the characters "{" and "}", a word (a run of \w characters that is a    *)
(* name), a stretch of literal markup without braces, the elements the     *)
(* layout scan looks for, and the str() of a formatted value.              *)

Atom(tok, name, value) == [tok |-> tok, name |-> name, value |-> value]

Ch(c) == Atom("char", c, Str(""))
Word(name) == Atom("word", name, Str(""))
Lit(text) == Atom("lit", text, Str(""))
Rendered(value) == Atom("value", "", value)

\* the delimited marker {{NAME}}
Marker(name) == <<Ch("{"), Ch("{"), Word(name), Ch("}"), Ch("}")>>

\* a replacement value that is free text (an activity name, a type)
Raw(text) == [kind |-> "raw", atoms |-> text]

\* str(value), template_manager.py:84: a fragment or a formatted statistic is
\* one atom, the empty string no atom at all
StrOf(value) ==
  IF value.kind = "raw" THEN value.atoms
  ELSE IF value.kind = "empty" THEN <<>>
  ELSE <<Rendered(value)>>

StartsWith(s, prefix) ==
  Len(s) >= Len(prefix) /\ SubSeq(s, 1, Len(prefix)) = prefix
EndsWith(s, suffix) ==
  Len(s) >= Len(suffix) /\ SubSeq(s, Len(s) - Len(suffix) + 1, Len(s)) = suffix

\* a search that takes the bare name for the marker
BareName(key) ==
  IF StartsWith(key, <<Ch("{"), Ch("{")>>) /\ EndsWith(key, <<Ch("}"), Ch("}")>>)
  THEN SubSeq(key, 3, Len(key) - 2)
  ELSE key

\* template_manager.py:81-82: a key that is not delimited yet is wrapped
Delimited(key) ==
  IF ~StartsWith(key, <<Ch("{"), Ch("{")>>) \/ ~EndsWith(key, <<Ch("}"), Ch("}")>>)
  THEN <<Ch("{"), Ch("{")>> \o key \o <<Ch("}"), Ch("}")>>
  ELSE key

\* str.replace(old, new): every non-overlapping occurrence, left to right (old
\* is a delimited marker, never the empty string)
RECURSIVE StrReplace(_, _, _)
StrReplace(s, old, new) ==
  IF Len(s) < Len(old) THEN s
  ELSE IF SubSeq(s, 1, Len(old)) = old
  THEN new \o StrReplace(SubSeq(s, Len(old) + 1, Len(s)), old, new)
  ELSE <<s[1]>> \o StrReplace(Tail(s), old, new)

\* a loop that returns at the end of its first iteration
ReturnInsideLoop(content, repl) ==
  IF repl = <<>> THEN content
  ELSE StrReplace(content, Delimited(repl[1][1]), StrOf(repl[1][2]))

\* TemplateManager.replace_placeholders; repl is replacements.items(), the
\* (key, value) pairs in the insertion order of the dict
RECURSIVE replace_placeholders(_, _)
replace_placeholders(content, repl) ==
  IF repl = <<>> THEN content
  ELSE replace_placeholders(
         StrReplace(content, Delimited(repl[1][1]), StrOf(repl[1][2])), Tail(repl))

\* TemplateManager.get_template_content: an empty template is "not loaded"
TemplateNotLoaded(content) == content = <<>>

\* TemplateManager.create_poster_content
create_poster_content(content, repl) == replace_placeholders(content, repl)

---------------------------------------------------------------------------
(* Layout scan (TemplateManager.extract_placeholder_dimensions).  The      *)
(* elements the regular expressions look for are atoms of the text:        *)
(*   rect   <rect ... x= y= width= height= .../>  (attributes in that      *)
(*          order); name holds the rest of its markup                      *)
(*   attrs  any other tag carrying width= and/or height=                   *)
(*   g      <g ... transform="translate(x, y)" ... id=...>                 *)
(*   /g     </g>                                                           *)
(*   filler markup in which no pattern matches, of a given length          *)
(* An attribute value is [ok, val]: ok says that float() parses it.        *)

Numeric(n) == [ok |-> TRUE, val |-> Num(n)]
NotNumeric == [ok |-> FALSE, val |-> Zero]           \* "100%", "12px", ""
NoAttr == [ok |-> FALSE, val |-> Num(-1)]            \* the attribute is not there

RectEl(x, y, width, height, rest) ==
  Atom("rect", rest, [x |-> x, y |-> y, width |-> width, height |-> height])
AttrsEl(width, height) ==
  Atom("attrs", "", [x |-> NoAttr, y |-> NoAttr, width |-> width, height |-> height])
GOpen(x, y, id) ==
  Atom("g", id, [x |-> x, y |-> y, width |-> NoAttr, height |-> NoAttr])
GClose == Atom("/g", "", Str(""))
Filler(n) == Atom("filler", "", [len |-> n])

\* the number of characters of an atom, for match.start() and the windows
NameLen(name) ==
  CASE name = "CUSTOM_GRAPH" -> 12
    [] name = "GPX_TRACK" -> 9
    [] name = "ELEVATION_PROFILE" -> 17
    [] name = "ACTIVITY_NAME" -> 13
    [] name = "UNKNOWN" -> 7
    [] OTHER -> 8
AtomLen(a) ==
  CASE a.tok = "char" -> 1
    [] a.tok = "word" -> NameLen(a.name)
    [] a.tok = "filler" -> a.value.len
    [] a.tok = "rect" -> 60
    [] a.tok = "g" -> 50
    [] a.tok = "/g" -> 4
    [] a.tok = "attrs" -> 40
    [] OTHER -> 20

RECURSIVE TextLen(_)
TextLen(t) == IF t = <<>> THEN 0 ELSE AtomLen(t[1]) + TextLen(Tail(t))

\* the character offset at which atom i starts
Offset(t, i) == TextLen(SubSeq(t, 1, i - 1))

\* {{(\w+)}} matches at atom i
MarkerAt(t, i) ==
  /\ i + 4 <= Len(t)
  /\ t[i] = Ch("{") /\ t[i + 1] = Ch("{")
  /\ t[i + 2].tok = "word"
  /\ t[i + 3] = Ch("}") /\ t[i + 4] = Ch("}")

\* the indices of a set, in increasing order
RECURSIVE Ascending(_)
Ascending(S) ==
  IF S = {} THEN <<>>
  ELSE LET m == CHOOSE x \in S : \A y \in S : x <= y
       IN  <<m>> \o Ascending(S \ {m})

Least(S) == CHOOSE x \in S : \A y \in S : x <= y

\* template_manager.py:113-114: the matches of g_pattern from atom `from` on.
\* A match starts at a <g> with a translation and an id, runs lazily to the
\* first marker after it and on to the first </g> after that marker; the next
\* match is searched after that </g>.
RECURSIVE GMatches(_, _)
GMatches(t, from) ==
  LET gs == {i \in from..Len(t) : t[i].tok = "g"}
      Markers(i) == {j \in (i + 1)..Len(t) : MarkerAt(t, j)}
      Closes(j) == {k \in (j + 5)..Len(t) : t[k].tok = "/g"}
      starts == {i \in gs : \E j \in Markers(i) : Closes(j) # {}}
  IN  IF starts = {} THEN <<>>
      ELSE LET i == Least(starts)
               j == Least(Markers(i))
               k == Least(Closes(j))
           IN  <<[g |-> i, marker |-> j, placeholder |-> t[j + 2].name]>>
                 \o GMatches(t, k + 1)

\* the marker occurrences in textual order, without the sort of line 161
TextualOrder(t) == Ascending({j \in 1..Len(t) : MarkerAt(t, j)})

\* template_manager.py:155-161: the marker occurrences, CUSTOM_GRAPH first
PlaceholderMatches(t) ==
  LET all == {j \in 1..Len(t) : MarkerAt(t, j)}
      first == {j \in all : t[j + 2].name = "CUSTOM_GRAPH"}
  IN  Ascending(first) \o Ascending(all \ first)

default_dimensions ==
  ("CUSTOM_GRAPH" :> Dims(Num(95), Num(48)))
    @@ ("GPX_TRACK" :> Dims(Num(170), Num(120)))
    @@ ("ELEVATION_PROFILE" :> Dims(Num(95), Num(48)))

\* the local state of a scan: the dimensions found so far, the rectangle atom
\* (its index in the text, 0 for none) each size was read from, used_rects,
\* whether an exception has been raised inside the try, and the matches the two
\* loops have still to go through
EmptyScan ==
  [dimensions |-> <<>>, source |-> <<>>, used_rects |-> {}, raised |-> FALSE,
   g_matches |-> <<>>, placeholder_matches |-> <<>>]

RaiseInScan(s) == [s EXCEPT !.raised = TRUE]

\* dimensions[placeholder] = {"width": float(width), "height": float(height)}
SetDimensions(s, placeholder, width, height, index) ==
  IF ~width.ok \/ ~height.ok THEN RaiseInScan(s)             \* ValueError
  ELSE [s EXCEPT !.dimensions = (placeholder :> Dims(width.val, height.val)) @@ @,
                 !.source = (placeholder :> index) @@ @]

RAbs(a) == <<Abs(a[1]), a[2]>>

\* template_manager.py:116-152: one match of the structural pass
StructuralStep(t, s, match) ==
  LET g == t[match.g].value
      rects == {r \in 1..(match.g - 1) : t[r].tok = "rect"}
      Distance(r) ==
        RAdd(RAbs(RSub(t[r].value.x.val, g.x.val)),
             RAbs(RSub(t[r].value.y.val, g.y.val)))
      \* "if distance < min_distance": the first of the closest ones
      best_rect ==
        CHOOSE r \in rects :
          /\ \A q \in rects : q < r => RLt(Distance(r), Distance(q))
          /\ \A q \in rects : q > r => RLe(Distance(r), Distance(q))
  IN  IF ~g.x.ok \/ ~g.y.ok THEN RaiseInScan(s)               \* float(x_offset)
      ELSE IF \E r \in rects : ~t[r].value.x.ok \/ ~t[r].value.y.ok
      THEN RaiseInScan(s)                                     \* float(rect_x)
      ELSE IF rects = {} THEN s
      ELSE SetDimensions(s, match.placeholder, t[best_rect].value.width,
                         t[best_rect].value.height, best_rect)

\* template_manager.py:181-184: the rectangles not used yet
AvailableRect(s, rect) == rect \notin s.used_rects

\* template_manager.py:163-228: one marker occurrence of the proximity pass
ProximityStep(t, s, j) ==
  LET placeholder == t[j + 2].name
      search_distance == IF placeholder = "GPX_TRACK" THEN 800 ELSE 300
      start_pos == IF Offset(t, j) - search_distance > 0
                   THEN Offset(t, j) - search_distance ELSE 0
      InContext(i) == i < j /\ Offset(t, i) >= start_pos
      rect_matches == Ascending({r \in 1..Len(t) : InContext(r) /\ t[r].tok = "rect"})
      Available(r) == AvailableRect(s, t[r])
      available_rects == SelectSeq(rect_matches, Available)
      n == Len(available_rects)
      Area(r) == RMul(t[r].value.width.val, t[r].value.height.val)
      largest ==
        {i \in 1..n :
           /\ RLt(Zero, Area(available_rects[i]))
           /\ \A q \in 1..n : q < i => RLt(Area(available_rects[q]), Area(available_rects[i]))
           /\ \A q \in 1..n : q > i => RLe(Area(available_rects[q]), Area(available_rects[i]))}
      by_area == placeholder = "GPX_TRACK" /\ n > 1
      chosen_rect ==
        IF by_area /\ largest # {} THEN available_rects[CHOOSE i \in largest : TRUE]
        ELSE available_rects[n]
      HasAttr(i, width) ==
        /\ InContext(i) /\ t[i].tok = "attrs"
        /\ (IF width THEN t[i].value.width ELSE t[i].value.height) # NoAttr
      width_matches == Ascending({i \in 1..Len(t) : HasAttr(i, TRUE)})
      height_matches == Ascending({i \in 1..Len(t) : HasAttr(i, FALSE)})
  IN  IF placeholder \in DOMAIN s.dimensions THEN s           \* continue
      ELSE IF rect_matches # <<>>
      THEN IF n = 0 THEN s
           ELSE IF by_area /\ \E i \in 1..n : ~t[available_rects[i]].value.width.ok
                                           \/ ~t[available_rects[i]].value.height.ok
           THEN RaiseInScan(s)                                \* float(width) * float(height)
           ELSE LET bound == SetDimensions(s, placeholder, t[chosen_rect].value.width,
                                           t[chosen_rect].value.height, chosen_rect)
                IN  [bound EXCEPT !.used_rects = @ \cup {t[chosen_rect]}]
      ELSE IF width_matches # <<>> /\ height_matches # <<>>
      THEN SetDimensions(s, placeholder,
                         t[width_matches[Len(width_matches)]].value.width,
                         t[height_matches[Len(height_matches)]].value.height, 0)
      ELSE s

RECURSIVE StructuralPass(_, _, _)
StructuralPass(t, s, matches) ==
  IF matches = <<>> \/ s.raised THEN s
  ELSE StructuralPass(t, StructuralStep(t, s, matches[1]), Tail(matches))

RECURSIVE ProximityPass(_, _, _)
ProximityPass(t, s, matches) ==
  IF matches = <<>> \/ s.raised THEN s
  ELSE ProximityPass(t, ProximityStep(t, s, matches[1]), Tail(matches))

\* an except that keeps what the scan had found
KeepFound(s) == s.dimensions @@ default_dimensions

\* template_manager.py:230-252: the defaults for the known names still
\* missing, and the full default map when the scan raised
ScanResult(s) ==
  IF s.raised THEN default_dimensions ELSE s.dimensions @@ default_dimensions

\* TemplateManager.extract_placeholder_dimensions
extract_placeholder_dimensions(t) ==
  IF TemplateNotLoaded(t) THEN default_dimensions             \* RuntimeError, caught
  ELSE ScanResult(ProximityPass(t, StructuralPass(t, EmptyScan, GMatches(t, 1)),
                                PlaceholderMatches(t)))

---------------------------------------------------------------------------
(* SpecCompose: replace_placeholders applied to texts put together from    *)
(* markers, literal text and stray delimiters, with every replacements     *)
(* dict of up to MaxPairs entries.                                         *)

MaxParts == 2
MaxPairs == 2

RECURSIVE Concat(_)
Concat(parts) == IF parts = <<>> THEN <<>> ELSE parts[1] \o Concat(Tail(parts))

ComposeParts ==
  {Marker("A"), Marker("B"), Marker("U"), <<Lit("x")>>, <<Ch("{"), Ch("{")>>,
   <<Word("B"), Ch("}"), Ch("}")>>}
ComposeTexts ==
  {Concat(parts) : parts \in UNION {[1..n -> ComposeParts] : n \in 0..MaxParts}}

\* keys: bare names and a key that is delimited already
ComposeKeys == {<<Word("A")>>, <<Word("B")>>, Marker("A")}
ComposeValues ==
  {Raw(<<Lit("v")>>), EmptyFragment, TextFragment(NO_GPS_DATA, Num(85), Num(60)),
   Raw(Marker("B")), Raw(<<Ch("{"), Ch("{")>>)}
ComposeDicts ==
  {d \in UNION {[1..n -> ComposeKeys \X ComposeValues] : n \in 0..MaxPairs} :
     \A i, j \in DOMAIN d : i # j => d[i][1] # d[j][1]}

InitCompose ==
  /\ pc = "call"
  /\ args \in [content : ComposeTexts, replacements : ComposeDicts]
  /\ ret = <<>>
  /\ PosterIdle

ReplacePlaceholders ==
  /\ pc = "call"
  /\ ret' = replace_placeholders(args.content, args.replacements)
  /\ pc' = "done"
  /\ UNCHANGED args
  /\ PosterUnchanged

NextCompose == ReplacePlaceholders

SpecCompose == InitCompose /\ [][NextCompose]_vars

---------------------------------------------------------------------------
(* SpecScan: extract_placeholder_dimensions, one match at a time, on       *)
(* templates put together from rectangles, groups, markers and filler.     *)

MaxChunks == 4

ScanRect == RectEl(Numeric(0), Numeric(0), Numeric(90), Numeric(40), "")
MapRect == RectEl(Numeric(0), Numeric(60), Numeric(170), Numeric(120), "")
PercentRect == RectEl(Numeric(0), Numeric(0), NotNumeric, Numeric(48), "")

ScanChunks ==
  {<<ScanRect>>, <<MapRect>>, <<PercentRect>>,
   <<GOpen(Numeric(0), Numeric(0), "graph")>> \o Marker("CUSTOM_GRAPH") \o <<GClose>>,
   <<GOpen(Numeric(0), Numeric(60), "map")>> \o Marker("GPX_TRACK") \o <<GClose>>,
   Marker("CUSTOM_GRAPH"), Marker("GPX_TRACK"), Marker("ELEVATION_PROFILE"),
   <<Filler(400)>>, <<AttrsEl(Numeric(210), Numeric(297))>>}

\* no search window starts in the middle of a tag carrying attributes
WindowsCutNoElement(t) ==
  \A j \in 1..Len(t) : MarkerAt(t, j) =>
    \A distance \in {300, 800} :
      \A i \in 1..(j - 1) :
        t[i].tok \in {"rect", "attrs"} =>
          ~(Offset(t, i) < Offset(t, j) - distance
              /\ Offset(t, j) - distance < Offset(t, i + 1))

ScanTemplates ==
  {t \in {Concat(chunks) : chunks \in UNION {[1..n -> ScanChunks] : n \in 0..MaxChunks}} :
     WindowsCutNoElement(t)}

InitScan ==
  /\ pc = "call"
  /\ template_content \in ScanTemplates
  /\ ret = EmptyScan
  /\ args = <<>>
  /\ activity = NoActivity
  /\ placeholder_dimensions = <<>>
  /\ replacements = <<>>
  /\ components = <<>>
  /\ poster = <<>>
  /\ custom_colors = <<>>
  /\ composite = <<>>
  /\ ServicesIdle

ScanUnchanged ==
  UNCHANGED <<args, activity, template_content, replacements, components, poster,
              custom_colors, composite,
              user_service, strava_service, network, files, now>>

\* the end of the call: the return of line 243, or the except of lines 245-252
ReturnDimensions(s) ==
  /\ pc' = "returned"
  /\ ret' = s
  /\ placeholder_dimensions' = ScanResult(s)

\* template_manager.py:108-114
BeginScan ==
  /\ pc = "call"
  /\ IF TemplateNotLoaded(template_content)
     THEN ReturnDimensions(RaiseInScan(ret))
     ELSE /\ pc' = "structural"
          /\ ret' = [ret EXCEPT !.g_matches = GMatches(template_content, 1)]
          /\ UNCHANGED placeholder_dimensions
  /\ ScanUnchanged

\* template_manager.py:116-152, one iteration
StructuralMatch ==
  /\ pc = "structural"
  /\ ret.g_matches # <<>>
  /\ LET s == StructuralStep(template_content, ret, ret.g_matches[1])
     IN  IF s.raised THEN ReturnDimensions(s)
         ELSE /\ pc' = "structural"
              /\ ret' = [s EXCEPT !.g_matches = Tail(@)]
              /\ UNCHANGED placeholder_dimensions
  /\ ScanUnchanged

\* template_manager.py:155-161
BeginProximity ==
  /\ pc = "structural"
  /\ ret.g_matches = <<>>
  /\ pc' = "proximity"
  /\ ret' = [ret EXCEPT !.placeholder_matches = PlaceholderMatches(template_content)]
  /\ UNCHANGED placeholder_dimensions
  /\ ScanUnchanged

\* template_manager.py:163-228, one iteration
ProximityMatch ==
  /\ pc = "proximity"
  /\ ret.placeholder_matches # <<>>
  /\ LET s == ProximityStep(template_content, ret, ret.placeholder_matches[1])
     IN  IF s.raised THEN ReturnDimensions(s)
         ELSE /\ pc' = "proximity"
              /\ ret' = [s EXCEPT !.placeholder_matches = Tail(@)]
              /\ UNCHANGED placeholder_dimensions
  /\ ScanUnchanged

\* template_manager.py:230-243
ApplyDefaults ==
  /\ pc = "proximity"
  /\ ret.placeholder_matches = <<>>
  /\ ReturnDimensions(ret)
  /\ ScanUnchanged

NextScan ==
  \/ BeginScan
  \/ StructuralMatch
  \/ BeginProximity
  \/ ProximityMatch
  \/ ApplyDefaults

SpecScan == InitScan /\ [][NextScan]_vars

\* the stepwise scan returns what the function computes
ScanAgrees ==
  pc = "returned" => placeholder_dimensions = extract_placeholder_dimensions(template_content)

---------------------------------------------------------------------------
(* color_palette.py: the ColorPalette.  A Python str is the sequence of    *)
(* its characters; a value that is not a str (None) has kind "none".       *)

HexStr(chars) == [kind |-> "str", chars |-> chars]
NoneColor == [kind |-> "none", chars |-> <<>>]

HexDigits ==
  <<"0", "1", "2", "3", "4", "5", "6", "7", "8", "9", "A", "B", "C", "D", "E", "F">>

\* str.upper() on the characters a colour accepted by line 88 can hold
Upper(c) ==
  CASE c = "a" -> "A" [] c = "b" -> "B" [] c = "c" -> "C"
    [] c = "d" -> "D" [] c = "e" -> "E" [] c = "f" -> "F"
    [] OTHER -> c

IsHexDigit(c) == \E i \in DOMAIN HexDigits : HexDigits[i] = Upper(c)
HexDigitValue(c) == (CHOOSE i \in DOMAIN HexDigits : HexDigits[i] = Upper(c)) - 1

\* color_palette.py:23-33 (_default_colors)
default_colors ==
  [background |-> <<"#", "F", "8", "F", "8", "F", "8">>,
   primary |-> <<"#", "F", "C", "4", "C", "0", "2">>,
   secondary |-> <<"#", "E", "7", "4", "C", "3", "C">>,
   third |-> <<"#", "3", "4", "9", "8", "D", "B">>,
   fourth |-> <<"#", "3", "4", "4", "9", "5", "E">>,
   start_point |-> <<"#", "2", "2", "C", "5", "5", "E">>,
   end_point |-> <<"#", "E", "F", "4", "4", "4", "4">>,
   graph_color |-> <<"#", "F", "C", "4", "C", "0", "2">>,
   map_color |-> <<"#", "F", "C", "4", "C", "0", "2">>]

\* color_palette.py:88: re.match(r'^#([A-Fa-f0-9]{3}|[A-Fa-f0-9]{6})$', color);
\* in Python '$' also matches just before a newline that ends the string
MatchesHexPattern(chars) ==
  LET body == IF Len(chars) > 0 /\ chars[Len(chars)] = "\n"
              THEN SubSeq(chars, 1, Len(chars) - 1) ELSE chars
  IN  \E core \in {chars, body} :
        /\ Len(core) \in {4, 7}
        /\ core[1] = "#"
        /\ \A i \in 2..Len(core) : IsHexDigit(core[i])

\* a mutation of _is_valid_hex_color: any string that begins with '#'
StartsWithHash(color) ==
  color.kind = "str" /\ Len(color.chars) > 0 /\ color.chars[1] = "#"

\* color_palette.py:72-88 (_is_valid_hex_color)
is_valid_hex_color(color) ==
  color.kind = "str" /\ MatchesHexPattern(color.chars)

\* color_palette.py:90-104 (_normalize_hex_color)
normalize_hex_color(color) ==
  LET c == color.chars
  IN  IF Len(c) = 4
      THEN HexStr(<<"#", Upper(c[2]), Upper(c[2]), Upper(c[3]), Upper(c[3]),
                    Upper(c[4]), Upper(c[4])>>)
      ELSE HexStr([i \in 1..Len(c) |-> Upper(c[i])])

\* color_palette.py:57-60 (valid_keys)
valid_keys ==
  {"background", "primary", "secondary", "third", "fourth", "start_point",
   "end_point", "graph_color", "map_color"}

\* color_palette.py:48-70 (_set_colors): the entries of color_dict in
\* insertion order, applied to the custom colours one at a time
RECURSIVE set_colors(_, _)
set_colors(custom, color_dict) ==
  IF color_dict = <<>> THEN [raised |-> FALSE, custom_colors |-> custom]
  ELSE LET key == color_dict[1][1]
           color == color_dict[1][2]
       IN  IF key \notin valid_keys THEN set_colors(custom, Tail(color_dict))
           ELSE IF ~is_valid_hex_color(color)
                THEN [raised |-> TRUE, custom_colors |-> custom]
                ELSE set_colors((key :> normalize_hex_color(color)) @@ custom,
                                Tail(color_dict))

\* color_palette.py:21-46 (__init__)
ColorPalette(color_dict) ==
  IF color_dict # <<>> THEN set_colors(<<>>, color_dict)
  ELSE [raised |-> FALSE, custom_colors |-> <<>>]

\* color_palette.py:177-191 (get_color)
get_color(custom, key) ==
  IF key \in DOMAIN custom THEN custom[key]
  ELSE IF key \in DOMAIN default_colors THEN HexStr(default_colors[key])
  ELSE NoneColor

\* color_palette.py:193-203 (get_all_colors): the keys of the merged dict
AllColorKeys(custom) == DOMAIN default_colors \cup DOMAIN custom

\* str.lstrip('#')
RECURSIVE LStripHash(_)
LStripHash(chars) ==
  IF chars # <<>> /\ Head(chars) = "#" THEN LStripHash(Tail(chars)) ELSE chars

\* hex_color[lo:hi] with 0-based bounds
Slice(chars, lo, hi) ==
  SubSeq(chars, lo + 1, IF hi < Len(chars) THEN hi ELSE Len(chars))

\* str.strip() of the whitespace a colour can hold
RECURSIVE StripNewlines(_)
StripNewlines(chars) ==
  IF chars = <<>> THEN chars
  ELSE IF Head(chars) = "\n" THEN StripNewlines(Tail(chars))
  ELSE IF chars[Len(chars)] = "\n" THEN StripNewlines(SubSeq(chars, 1, Len(chars) - 1))
  ELSE chars

\* int(text, 16): a failure is a ValueError
ParsesAsHex(text) ==
  LET digits == StripNewlines(text)
  IN  digits # <<>> /\ \A i \in DOMAIN digits : IsHexDigit(digits[i])

RECURSIVE HexNumber(_)
HexNumber(digits) ==
  IF digits = <<>> THEN 0
  ELSE 16 * HexNumber(SubSeq(digits, 1, Len(digits) - 1))
         + HexDigitValue(digits[Len(digits)])

IntBase16(text) == HexNumber(StripNewlines(text))

\* int(x) of a float: truncation towards zero
IntOf(a) == IF a[1] >= 0 THEN a[1] \div a[2] ELSE -((-a[1]) \div a[2])

\* f"{n:02X}" for n >= 0
RECURSIVE UpperHex(_)
UpperHex(n) == IF n < 16 THEN <<HexDigits[n + 1]>> ELSE UpperHex(n \div 16) \o <<HexDigits[(n % 16) + 1]>>

Format02X(n) == IF n < 16 THEN <<"0">> \o UpperHex(n) ELSE UpperHex(n)

\* color_palette.py:164-166: max(0, int(channel * (1 - factor)))
Darkened(channel, factor) ==
  LET scaled == IntOf(RMul(Num(channel), RSub(Num(1), factor)))
  IN  IF scaled > 0 THEN scaled ELSE 0

\* color_palette.py:148-175 (_darken_color).  Line 160 rebinds hex_color to
\* the stripped text inside the try, so the except of lines 173-175 returns
\* the stripped text; a value without lstrip fails on line 160 itself and is
\* returned as it came.
darken_color(hex_color, factor) ==
  IF hex_color.kind # "str" THEN [raised |-> FALSE, value |-> hex_color]
  ELSE LET stripped == LStripHash(hex_color.chars)
           r == Slice(stripped, 0, 2)
           g == Slice(stripped, 2, 4)
           b == Slice(stripped, 4, 6)
       IN  IF ParsesAsHex(r) /\ ParsesAsHex(g) /\ ParsesAsHex(b)
           THEN [raised |-> FALSE,
                 value |-> HexStr(<<"#">> \o Format02X(Darkened(IntBase16(r), factor))
                                    \o Format02X(Darkened(IntBase16(g), factor))
                                    \o Format02X(Darkened(IntBase16(b), factor)))]
           ELSE [raised |-> FALSE, value |-> HexStr(stripped)]

\* color_palette.py:142-146 (get_stroke_color)
get_stroke_color(custom) == darken_color(get_color(custom, "primary"), Rat(1, 5))

---------------------------------------------------------------------------
(* SpecColor: _darken_color applied to every string of the alphabet up to  *)
(* MaxColorLen characters, and to None.                                    *)

MaxColorLen == 7

ColorChars == {"#", "8", "f", "G"}
DarkenInputs ==
  {HexStr(chars) : chars \in UNION {[1..n -> ColorChars] : n \in 0..MaxColorLen}}
    \cup {NoneColor}
DarkenFactors == {Rat(1, 5), Rat(1, 2)}

InitColor ==
  /\ pc = "call"
  /\ args \in [hex_color : DarkenInputs, factor : DarkenFactors]
  /\ ret = [raised |-> FALSE, value |-> NoneColor]
  /\ PosterIdle

DarkenColor ==
  /\ pc = "call"
  /\ ret' = darken_color(args.hex_color, args.factor)
  /\ pc' = "done"
  /\ UNCHANGED args
  /\ PosterUnchanged

NextColor == DarkenColor

SpecColor == InitColor /\ [][NextColor]_vars

---------------------------------------------------------------------------
(* SpecPalette: a ColorPalette is constructed from a mapping, then asked   *)
(* for colours.                                                            *)

MaxEntries == 2

PaletteKeys == {"primary", "map_color", "bogus"}
PaletteValues ==
  {HexStr(<<"#", "f", "8", "0">>),
   HexStr(<<"#", "F", "F", "8", "0", "0", "0">>),
   HexStr(<<"#", "f", "f", "f", "f">>),
   HexStr(<<"r", "e", "d">>),
   HexStr(<<"#", "a", "b", "c", "\n">>),
   NoneColor}
ColorDicts ==
  {d \in UNION {[1..n -> PaletteKeys \X PaletteValues] : n \in 0..MaxEntries} :
     \A i, j \in DOMAIN d : i # j => d[i][1] # d[j][1]}
LookupKeys == PaletteKeys \cup {"background"}

InitPalette ==
  /\ pc = "new"
  /\ args \in [color_dict : ColorDicts]
  /\ ret = [raised |-> FALSE, value |-> NoneColor]
  /\ custom_colors = <<>>
  /\ composite = <<>>
  /\ ServicesIdle
  /\ activity = NoActivity
  /\ template_content = <<>>
  /\ placeholder_dimensions = <<>>
  /\ replacements = <<>>
  /\ components = <<>>
  /\ poster = <<>>

PaletteUnchanged ==
  UNCHANGED <<args, activity, template_content, placeholder_dimensions, replacements,
              components, poster, composite,
              user_service, strava_service, network, files, now>>

\* ColorPalette(color_dict)
Construct ==
  /\ pc = "new"
  /\ LET made == ColorPalette(args.color_dict)
     IN  /\ custom_colors' = made.custom_colors
         /\ ret' = [raised |-> made.raised, value |-> NoneColor]
         /\ pc' = IF made.raised THEN "raised" ELSE "ready"
  /\ PaletteUnchanged

\* palette.get_color(key)
GetColor ==
  /\ pc = "ready"
  /\ \E key \in LookupKeys :
       ret' = [raised |-> FALSE, value |-> get_color(custom_colors, key)]
  /\ UNCHANGED <<pc, custom_colors>>
  /\ PaletteUnchanged

\* palette.get_stroke_color()
GetStrokeColor ==
  /\ pc = "ready"
  /\ ret' = get_stroke_color(custom_colors)
  /\ UNCHANGED <<pc, custom_colors>>
  /\ PaletteUnchanged

NextPalette == Construct \/ GetColor \/ GetStrokeColor

SpecPalette == InitPalette /\ [][NextPalette]_vars

---------------------------------------------------------------------------
(* visual_components.py:832-1062: the track over OpenStreetMap tiles.  The *)
(* composite image is recorded by the positions at which tiles were pasted. *)

\* visual_components.py:846: int((lon + 180.0) / 360.0 * n) with n = 2.0 ** zoom
TileColumn(lon, zoom) ==
  IntOf(RMul(RDiv(RAdd(lon, Num(180)), Num(360)), Num(2 ^ zoom)))

\* visual_components.py:844-847: int((1.0 - asinh(tan(lat_rad)) / pi) / 2.0 * n),
\* tabulated from the code for the latitudes and zoom levels of the input set
MercatorRow(lat, zoom) ==
  CASE zoom = 3 /\ lat = Rat(-3, 10) -> 4
    [] zoom = 3 /\ lat = Rat(-1, 10) -> 4
    [] zoom = 3 /\ lat = Rat(0, 1) -> 4
    [] zoom = 3 /\ lat = Rat(4, 5) -> 3
    [] zoom = 3 /\ lat = Rat(1, 1) -> 3
    [] zoom = 3 /\ lat = Rat(11, 10) -> 3
    [] zoom = 3 /\ lat = Rat(3, 1) -> 3
    [] zoom = 3 /\ lat = Rat(16, 5) -> 3
    [] zoom = 3 /\ lat = Rat(33, 10) -> 3
    [] zoom = 14 /\ lat = Rat(-3, 10) -> 8205
    [] zoom = 14 /\ lat = Rat(-1, 10) -> 8196
    [] zoom = 14 /\ lat = Rat(0, 1) -> 8192
    [] zoom = 14 /\ lat = Rat(4, 5) -> 8155
    [] zoom = 14 /\ lat = Rat(1, 1) -> 8146
    [] zoom = 14 /\ lat = Rat(11, 10) -> 8141
    [] zoom = 14 /\ lat = Rat(3, 1) -> 8055
    [] zoom = 14 /\ lat = Rat(16, 5) -> 8046
    [] zoom = 14 /\ lat = Rat(33, 10) -> 8041

\* visual_components.py:832-848 (_deg_to_tile)
deg_to_tile(lat, lon, zoom) == <<TileColumn(lon, zoom), MercatorRow(lat, zoom)>>

max_tiles == 16
tile_size == 256

\* the budget with only the wider side of the grid cut to 4
LimitWiderSide(tile_width, tile_height) ==
  IF tile_width * tile_height > max_tiles
  THEN IF tile_width > tile_height
       THEN <<IF tile_width < 4 THEN tile_width ELSE 4, tile_height>>
       ELSE <<tile_width, IF tile_height < 4 THEN tile_height ELSE 4>>
  ELSE <<tile_width, tile_height>>

\* visual_components.py:964-975: the grid brought under the tile budget
LimitTiles(tile_width, tile_height) ==
  IF tile_width * tile_height > max_tiles
  THEN IF tile_width > tile_height
       THEN LET w == IF tile_width < 4 THEN tile_width ELSE 4
                q == max_tiles \div w
            IN  <<w, IF tile_height < q THEN tile_height ELSE q>>
       ELSE LET h == IF tile_height < 4 THEN tile_height ELSE 4
                q == max_tiles \div h
            IN  <<IF tile_width < q THEN tile_width ELSE q, h>>
  ELSE <<tile_width, tile_height>>

\* visual_components.py:932-975: the tiles that cover the track
TileGrid(coordinates, zoom_level) ==
  LET lats == Lats(coordinates)
      lons == Lons(coordinates)
      min_lat == SeqMin(lats)
      max_lat == SeqMax(lats)
      min_lon == SeqMin(lons)
      max_lon == SeqMax(lons)
      center_lat == RDiv(RAdd(min_lat, max_lat), Num(2))
      center_lon == RDiv(RAdd(min_lon, max_lon), Num(2))
      lat_range == RMul(RSub(max_lat, min_lat), Rat(12, 10))
      lon_range == RMul(RSub(max_lon, min_lon), Rat(12, 10))
      top_lat == RAdd(center_lat, RDiv(lat_range, Num(2)))
      bottom_lat == RSub(center_lat, RDiv(lat_range, Num(2)))
      left_lon == RSub(center_lon, RDiv(lon_range, Num(2)))
      right_lon == RAdd(center_lon, RDiv(lon_range, Num(2)))
      top_left == deg_to_tile(top_lat, left_lon, zoom_level)
      bottom_right == deg_to_tile(bottom_lat, right_lon, zoom_level)
      across == bottom_right[1] - top_left[1] + 1
      down == bottom_right[2] - top_left[2] + 1
      limited == LimitTiles(IF across > 1 THEN across ELSE 1, IF down > 1 THEN down ELSE 1)
  IN  [left_tile_x |-> top_left[1], top_tile_y |-> top_left[2],
       tile_width |-> limited[1], tile_height |-> limited[2]]

\* the locals of a call before the fetch loop of lines 985-993 has begun
NoTiles ==
  [grid |-> [left_tile_x |-> 0, top_tile_y |-> 0, tile_width |-> 0, tile_height |-> 0],
   next |-> 0, tiles_fetched |-> 0, pasted |-> {}]

\* visual_components.py:986-987: the tile the loops reach after `next` fetches
TileAt(grid, next) ==
  <<grid.left_tile_x + (next % grid.tile_width), grid.top_tile_y + (next \div grid.tile_width)>>

\* visual_components.py:988-993: one pass of the inner loop; fetched is
\* whether _fetch_osm_tile (lines 868-898) returned an image rather than None
FetchStep(c, fetched) ==
  LET tile == TileAt(c.grid, c.next)
      paste == <<(tile[1] - c.grid.left_tile_x) * tile_size,
                 (tile[2] - c.grid.top_tile_y) * tile_size>>
  IN  IF fetched
      THEN [c EXCEPT !.next = @ + 1, !.tiles_fetched = @ + 1, !.pasted = @ \cup {paste}]
      ELSE [c EXCEPT !.next = @ + 1]

\* visual_components.py:914-915, 918-928: the guard, and width and height
OverlaySize(dimensions) ==
  IF dimensions.present THEN <<dimensions.width, dimensions.height>>
  ELSE <<Num(400), Num(300)>>

\* visual_components.py:931-932: coord[0], coord[1] of every coordinate
OverlayRaises(coordinates) ==
  \E i \in DOMAIN coordinates : ~Indexable(coordinates[i], 2)

\* visual_components.py:995-1056: the fragment returned after the fetch loop.
\* The pixel positions of the track (coord_to_pixel, lines 1001-1014) are not
\* computed: the path is recorded by the geographic points it joins.
OverlayFragment(coordinates, dimensions, c) ==
  LET size == OverlaySize(dimensions)
      smaller == RMin(size[1], size[2])
      stroke_width == RMax(Num(3), RMul(smaller, Rat(1, 100)))
      circle_radius == RMax(Num(4), RMul(smaller, Rat(15, 1000)))
      points == [i \in 1..Len(coordinates) |->
                   <<Lats(coordinates)[i], Lons(coordinates)[i]>>]
  IN  [kind |-> "group", id |-> "gpx-osm-overlay",
       image |-> [width |-> size[1], height |-> size[2], pasted |-> c.pasted,
                  tiles_fetched |-> c.tiles_fetched],
       paths |-> <<[pts |-> points, fill |-> "none", stroke |-> "map",
                    stroke_width |-> stroke_width]>>,
       circles |-> <<[c |-> points[1], r |-> circle_radius, fill |-> "start"],
                     [c |-> points[Len(points)], r |-> circle_radius, fill |-> "end"]>>]

---------------------------------------------------------------------------
(* SpecOverlay: create_gpx_osm_overlay_svg, one tile fetch at a time; each *)
(* fetch either yields an image or fails.                                  *)

OverlayTracks ==
  {<<>>,
   <<Coord(<<0, 0>>)>>,
   <<Coord(<<1, 2>>), Coord(<<1, 2>>)>>,
   <<Coord(<<0, 0>>), Coord(<<0, 2>>)>>,
   <<Coord(<<0, 0, 100>>), Coord(<<1, 0, 101>>)>>,
   <<Coord(<<0, 0, 100>>), Coord(<<1, 2, 101>>), Coord(<<3, 0, 103>>)>>,
   <<Coord(<<0, 0>>), BadCoord>>,
   <<Coord(<<0, 0>>), Coord(<<1>>)>>}
OverlayRegions == {NoDims, Dims(Num(170), Num(120))}
ZoomLevels == {3, 14}

InitOverlay ==
  /\ pc = "call"
  /\ args \in [coordinates : OverlayTracks, dimensions : OverlayRegions,
               zoom_level : ZoomLevels]
  /\ ret = EmptyFragment
  /\ composite = NoTiles
  /\ ServicesIdle
  /\ activity = NoActivity
  /\ template_content = <<>>
  /\ placeholder_dimensions = <<>>
  /\ replacements = <<>>
  /\ components = <<>>
  /\ poster = <<>>
  /\ custom_colors = <<>>

OverlayUnchanged ==
  UNCHANGED <<args, activity, template_content, placeholder_dimensions, replacements,
              components, poster, custom_colors,
              user_service, strava_service, network, files, now>>

\* visual_components.py:913-981, and the except of lines 1059-1062
BeginOverlay ==
  /\ pc = "call"
  /\ IF TooFewCoordinates(args.coordinates)
     THEN pc' = "returned" /\ ret' = EmptyFragment /\ UNCHANGED composite
     ELSE IF OverlayRaises(args.coordinates)
     THEN /\ pc' = "returned"
          /\ ret' = create_elevation_profile_svg(args.coordinates, args.dimensions)
          /\ UNCHANGED composite
     ELSE /\ pc' = "fetching"
          /\ composite' = [NoTiles EXCEPT
                             !.grid = TileGrid(args.coordinates, args.zoom_level)]
          /\ UNCHANGED ret
  /\ OverlayUnchanged

\* visual_components.py:985-993
FetchTile ==
  /\ pc = "fetching"
  /\ composite.next < composite.grid.tile_width * composite.grid.tile_height
  /\ \E fetched \in BOOLEAN : composite' = FetchStep(composite, fetched)
  /\ UNCHANGED <<pc, ret>>
  /\ OverlayUnchanged

\* visual_components.py:995-1056
ReturnOverlay ==
  /\ pc = "fetching"
  /\ composite.next = composite.grid.tile_width * composite.grid.tile_height
  /\ ret' = OverlayFragment(args.coordinates, args.dimensions, composite)
  /\ pc' = "returned"
  /\ UNCHANGED composite
  /\ OverlayUnchanged

NextOverlay == BeginOverlay \/ FetchTile \/ ReturnOverlay

SpecOverlay == InitOverlay /\ [][NextOverlay]_vars

---------------------------------------------------------------------------
(* Spec: PosterGenerator.generate_poster, step by step.                    *)

PosterPoints == 10
PosterSplits == 5

TrackPairs == [i \in 1..PosterPoints |-> Coord(<<i, (i * i) % 7>>)]
TrackTriples == [i \in 1..PosterPoints |-> Coord(<<i, (i * i) % 7, 100 + i>>)]
PosterCoordinates ==
  {<<>>, <<Coord(<<1, 2>>)>>, <<Coord(<<1, 2, 100>>)>>, TrackPairs, TrackTriples,
   <<BadCoord, BadCoord>>, <<Coord(<<1, 2, 100>>), Coord(<<1>>)>>}

ValidSplits == [i \in 1..PosterSplits |-> Split(i, Rat(50 + i, 10))]
PosterKmSplits ==
  {<<>>, ValidSplits, [i \in 1..PosterSplits |-> Split(i, Num(5))],
   [i \in 1..PosterSplits |-> Split(i, Num(20))], Append(ValidSplits, BadSplit)}

\* 'name' is free text: absent, an ordinary title, or a title that spells a
\* marker
ActivityNames ==
  {[kind |-> "absent", atoms |-> <<>>], Raw(<<Lit("Morning Run")>>),
   Raw(Marker("ACTIVITY_NAME"))}

\* poster_framework.svg: the statistics first, then for each chart the
\* rectangle of its region, the opening of its group and its marker
PosterTemplate(graph_height, map_side, profile_width) ==
  <<Lit("<svg>")>> \o Marker("ACTIVITY_NAME") \o Marker("DISTANCE") \o Marker("DURATION")
    \o <<RectEl(Numeric(10), Numeric(10), Numeric(95), Numeric(graph_height), ""),
         Lit("<g histogram>")>> \o Marker("CUSTOM_GRAPH")
    \o <<Filler(400),
         RectEl(Numeric(10), Numeric(70), Numeric(map_side[1]), Numeric(map_side[2]), ""),
         Lit("<g map>")>> \o Marker("GPX_TRACK")
    \o <<Filler(400),
         RectEl(Numeric(10), Numeric(200), Numeric(profile_width[1]), Numeric(profile_width[2]), ""),
         Lit("<g profile>")>> \o Marker("ELEVATION_PROFILE")
    \o Marker("UNKNOWN") \o <<Lit("</svg>")>>

PosterTemplates ==
  {PosterTemplate(h, m, p) : h \in {48, 12}, m \in {<<170, 120>>, <<50, 50>>},
                            p \in {<<95, 48>>, <<400, 95>>}}

\* the keys of the replacements dict in insertion order: formatters.py:275-304,
\* then replacements.update(visual_components), poster_generator.py:62
ReplacementKeys ==
  <<"ACTIVITY_NAME", "DISTANCE", "DURATION", "ELEVATION_GAIN", "ACTIVITY_TYPE", "CITY",
    "DATE", "AVERAGE_SPEED", "AVERAGE_PACE", "CUSTOM_GRAPH", "PACE_HISTOGRAM",
    "GPX_TRACK", "GPS_MAP", "GPX_TRACK_ALT", "ELEVATION_PROFILE">>

\* replacements.items()
Items(repl) ==
  LET InDict(name) == name \in DOMAIN repl
      keys == SelectSeq(ReplacementKeys, InDict)
  IN  [i \in 1..Len(keys) |-> <<<<Word(keys[i])>>, repl[keys[i]]>>]

Activities ==
  [name : ActivityNames, km_splits : PosterKmSplits, coordinates : PosterCoordinates,
   distance : {Absent, None, Number(10000)}, moving_time : {Absent, Number(3000)}]

Init ==
  /\ pc = "start"
  /\ activity \in Activities
  /\ template_content \in PosterTemplates
  /\ args = <<>>
  /\ ret = EmptyFragment
  /\ placeholder_dimensions = <<>>
  /\ replacements = <<>>
  /\ components = <<>>
  /\ poster = <<>>
  /\ custom_colors = <<>>
  /\ composite = <<>>
  /\ ServicesIdle

\* poster_generator.py:56, and the except of lines 70-72
FormatReplacements ==
  /\ pc = "start"
  /\ IF StatisticsRaise(activity)
     THEN pc' = "raised" /\ UNCHANGED replacements
     ELSE pc' = "formatted" /\ replacements' = create_poster_replacements(activity)
  /\ UNCHANGED <<user_service, strava_service, network, files, now, composite, custom_colors, args, ret, activity, template_content, placeholder_dimensions, components, poster>>

\* poster_generator.py:86-92
ExtractDimensions ==
  /\ pc = "formatted"
  /\ placeholder_dimensions' = extract_placeholder_dimensions(template_content)
  /\ pc' = "dimensions"
  /\ UNCHANGED <<user_service, strava_service, network, files, now, composite, custom_colors, args, ret, activity, template_content, replacements, components, poster>>

\* poster_generator.py:94-107
HistogramComponents(act, dims) ==
  LET pace_histogram ==
        IF act.km_splits # <<>>
        THEN create_pace_histogram_svg(act.km_splits, dims["CUSTOM_GRAPH"])
        ELSE EmptyFragment
  IN  ("CUSTOM_GRAPH" :> pace_histogram) @@ ("PACE_HISTOGRAM" :> pace_histogram)

\* poster_generator.py:109-150
GpsComponents(act, dims) ==
  LET gpx_track_dims == dims["GPX_TRACK"]
      center == IF gpx_track_dims.present
                THEN <<RDiv(gpx_track_dims.width, Num(2)), RDiv(gpx_track_dims.height, Num(2))>>
                ELSE <<Num(85), Num(60)>>
      gps_map == create_gps_map_svg(act.coordinates, gpx_track_dims)
      Same(fragment, alt) ==
        ("GPX_TRACK" :> fragment) @@ ("GPS_MAP" :> fragment) @@ ("GPX_TRACK_ALT" :> alt)
  IN  IF act.coordinates = <<>>
      THEN Same(TextFragment(NO_GPS_DATA, center[1], center[2]), EmptyFragment)
      ELSE IF ~act.coordinates[1].ok                  \* len(None): except, line 127
      THEN Same(TextFragment(GPS_ERROR, center[1], center[2]), EmptyFragment)
      ELSE IF Len(act.coordinates[1].v) >= 3
      THEN Same(gps_map, create_gpx_track_svg(act.coordinates, gpx_track_dims))
      ELSE Same(gps_map, gps_map)

\* poster_generator.py:154: len(coordinates[0]) is evaluated outside any try
ElevationGuardRaises(act) == act.coordinates # <<>> /\ ~act.coordinates[1].ok

\* poster_generator.py:152-163
ElevationComponents(act, dims) ==
  "ELEVATION_PROFILE" :>
    (IF act.coordinates # <<>> /\ Len(act.coordinates[1].v) >= 3
     THEN create_elevation_profile_svg(act.coordinates, dims["ELEVATION_PROFILE"])
     ELSE EmptyFragment)

RenderHistogram ==
  /\ pc = "dimensions"
  /\ components' = HistogramComponents(activity, placeholder_dimensions)
  /\ pc' = "histogram"
  /\ UNCHANGED <<user_service, strava_service, network, files, now, composite, custom_colors, args, ret, activity, template_content, placeholder_dimensions,
               replacements, poster>>

RenderGps ==
  /\ pc = "histogram"
  /\ components' = GpsComponents(activity, placeholder_dimensions) @@ components
  /\ pc' = "gps"
  /\ UNCHANGED <<user_service, strava_service, network, files, now, composite, custom_colors, args, ret, activity, template_content, placeholder_dimensions,
               replacements, poster>>

RenderElevation ==
  /\ pc = "gps"
  /\ IF ElevationGuardRaises(activity)
     THEN pc' = "raised" /\ UNCHANGED components
     ELSE /\ pc' = "elevation"
          /\ components' = ElevationComponents(activity, placeholder_dimensions) @@ components
  /\ UNCHANGED <<user_service, strava_service, network, files, now, composite, custom_colors, args, ret, activity, template_content, placeholder_dimensions,
               replacements, poster>>

\* poster_generator.py:62-68
Compose ==
  /\ pc = "elevation"
  /\ replacements' = components @@ replacements
  /\ poster' = create_poster_content(template_content, Items(components @@ replacements))
  /\ pc' = "done"
  /\ UNCHANGED <<user_service, strava_service, network, files, now, composite, custom_colors, args, ret, activity, template_content, placeholder_dimensions, components>>

Next ==
  \/ FormatReplacements
  \/ ExtractDimensions
  \/ RenderHistogram
  \/ RenderGps
  \/ RenderElevation
  \/ Compose

Spec == Init /\ [][Next]_vars

---------------------------------------------------------------------------
(* Properties of calculate_responsive_dimensions (SpecDims).               *)

Positive(r) == RLt(Zero, r)

PositiveSource == Positive(args.source[1]) /\ Positive(args.source[2])
PositiveTarget ==
  args.target.present /\ Positive(args.target.width) /\ Positive(args.target.height)

FitsTarget ==
  /\ RLe(ret.width, args.target.width)
  /\ RLe(ret.height, args.target.height)

\* the scale-to-fit pair of the call, before the floor
ScaledPairAboveFloor ==
  LET scale == RMin(RDiv(args.target.width, args.source[1]),
                    RDiv(args.target.height, args.source[2]))
  IN  /\ RLe(Num(min_dimension), RMul(args.source[1], scale))
      /\ RLe(Num(min_dimension), RMul(args.source[2], scale))

\* C1: for a positive target region and a positive source, the returned pair
\* keeps the source's aspect ratio (width * sourceHeight = height * sourceWidth)
\* and neither dimension is below the floor of 10 units.
C1_RatioKeptAboveFloor ==
  (pc = "done" /\ PositiveTarget /\ PositiveSource) =>
    /\ ~ret.raised
    /\ RMul(ret.width, args.source[2]) = RMul(ret.height, args.source[1])
    /\ RLe(Num(min_dimension), ret.width)
    /\ RLe(Num(min_dimension), ret.height)

\* the floor engaged on a 5x5 region: height clamped to 10, width rebuilt from the ratio
C1_Witness ==
  /\ pc = "done"
  /\ args.target = Dims(Num(5), Num(5))
  /\ args.source = <<Num(95), Num(48)>>
  /\ ret.height = Num(min_dimension)
  /\ ret.width = Rat(950, 48)

\* C2 as stated: for every target region and positive source the returned pair
\* fits within the target region on both axes.
C2_FitsEveryRegion ==
  (pc = "done" /\ PositiveTarget /\ PositiveSource) => FitsTarget

\* C2 amended: the returned pair fits within the target region on both axes
\* whenever neither dimension of the scale-to-fit pair is below the floor of 10
\* units; enlargement beyond scale 1.0 is allowed.
C2_FitsRegionAboveFloor ==
  (pc = "done" /\ args.target.present /\ PositiveSource /\ ScaledPairAboveFloor)
    => FitsTarget

\* an enlargement: 95x48 scaled up into 400x400, touching the region's width
C2_Witness ==
  /\ pc = "done"
  /\ args.target = Dims(Num(400), Num(400))
  /\ args.source = <<Num(95), Num(48)>>
  /\ ScaledPairAboveFloor
  /\ ret.width = Num(400)
  /\ RLt(Num(48), ret.height)
  /\ FitsTarget

\* C16: with a source height of 0 and a non-empty target region
\* calculate_responsive_dimensions does not raise, and the pair it returns has
\* the aspect ratio 1.
C16_ZeroHeightTreatedAsSquare ==
  (pc = "done" /\ args.target.present /\ args.source[2] = Zero) =>
    /\ ~ret.raised
    /\ ret.width = ret.height

---------------------------------------------------------------------------
(* Properties of create_pace_histogram_svg (SpecHist).                     *)

WellFormedSplits == \A i \in DOMAIN args.km_splits : args.km_splits[i].ok
KeptKms == SeqMap(LAMBDA sp : sp.km, SelectSeq(args.km_splits, KeptSplit))
RectKms == [i \in 1..Len(ret.rects) |-> ret.rects[i].km]

\* C3: among the kept splits, a strictly smaller pace is drawn with a strictly
\* taller bar, for every region size.
C3_FasterIsTaller ==
  (pc = "done" /\ WellFormedSplits /\ ret.kind = "group") =>
    \A i, j \in DOMAIN ret.rects :
      RLt(args.km_splits[ret.rects[i].km].pace, args.km_splits[ret.rects[j].km].pace)
        => RLt(ret.rects[j].height, ret.rects[i].height)

\* C4: the histogram is the empty fragment exactly when no split has a pace
\* strictly between 0 and 20; otherwise it is one group holding one rect per
\* kept split, in input order.
C4_EmptyIffNothingKept ==
  (pc = "done" /\ WellFormedSplits) =>
    /\ (ret = EmptyFragment) <=> (KeptKms = <<>>)
    /\ (ret # EmptyFragment) => (ret.kind = "group" /\ RectKms = KeptKms)

KeptPaces == SeqMap(PaceOf, SelectSeq(args.km_splits, KeptSplit))

\* C15: the tick seconds of the Y axis are multiples of 10 that round outward:
\* the lowest tick is <= the minimum kept pace and the highest tick is >= the
\* maximum kept pace, both in seconds.
C15_TicksRoundOutward ==
  (pc = "done" /\ WellFormedSplits /\ KeptPaces # <<>>) =>
    LET y_ticks_seconds == YTicksSeconds(KeptPaces)
    IN  /\ \A i \in DOMAIN y_ticks_seconds : y_ticks_seconds[i] % 10 = 0
        /\ RLe(Num(y_ticks_seconds[1]), RMul(SeqMin(KeptPaces), Num(60)))
        /\ RLe(RMul(SeqMax(KeptPaces), Num(60)),
               Num(y_ticks_seconds[Len(y_ticks_seconds)]))

---------------------------------------------------------------------------
(* Properties of the coordinate renderers (SpecTrack).                     *)

AllPairs == \A i \in DOMAIN args.coordinates : UnpacksAsPair(args.coordinates[i])
AllTriples ==
  \A i \in DOMAIN args.coordinates :
    args.coordinates[i].ok /\ Len(args.coordinates[i].v) = 3
PairsOf(coordinates) ==
  [i \in 1..Len(coordinates) |-> Coord(SubSeq(coordinates[i].v, 1, 2))]

\* C6: a list of at least 2 [lat, lon, alt] triples is rendered like the list of
\* its [lat, lon] pairs: one path through all points, a start and an end circle.
C6_TriplesRenderedAsPairs ==
  (pc = "gps_map" /\ Len(args.coordinates) >= 2 /\ AllTriples) =>
    /\ ret = create_gps_map_svg(PairsOf(args.coordinates), args.dimensions)
    /\ ret.kind = "group"
    /\ Len(ret.paths) = 1
    /\ Len(ret.paths[1].pts) = Len(args.coordinates)
    /\ Len(ret.circles) = 2

MapSize == calculate_responsive_dimensions(args.dimensions, Num(170), Num(120))

InBounds(p) ==
  LET margin == GpsMargin(MapSize.width, MapSize.height)
  IN  /\ RLe(margin, p[1]) /\ RLe(p[1], RSub(MapSize.width, margin))
      /\ RLe(margin, p[2]) /\ RLe(p[2], RSub(MapSize.height, margin))

SameLatitude == \A i \in DOMAIN args.coordinates : args.coordinates[i].v[1] = args.coordinates[1].v[1]
SameLongitude == \A i \in DOMAIN args.coordinates : args.coordinates[i].v[2] = args.coordinates[1].v[2]

C8_NoDataText ==
  (pc = "gps_map" /\ Len(args.coordinates) <= 1) =>
    /\ ret.kind = "text"
    /\ ret.label = NO_GPS_DATA
    /\ ret.paths = <<>>

\* one coordinate and no region: the text is centred in the default 170x120 map
C8_Witness ==
  /\ pc = "gps_map"
  /\ Len(args.coordinates) = 1
  /\ AllPairs
  /\ ~args.dimensions.present
  /\ ret = TextFragment(NO_GPS_DATA, Num(85), Num(60))

WellFormedCoordinates ==
  \A i \in DOMAIN args.coordinates :
    args.coordinates[i].ok /\ Len(args.coordinates[i].v) \in {2, 3}
WithAltitude ==
  {i \in DOMAIN args.coordinates : Len(args.coordinates[i].v) = 3}

\* C9: the elevation profile is the empty fragment whenever fewer than 2 input
\* coordinates carry an altitude, and a non-empty path when exactly 2 do.
C9_ElevationNeedsTwoAltitudes ==
  (pc = "elevation_profile" /\ WellFormedCoordinates) =>
    /\ (Cardinality(WithAltitude) < 2) => (ret = EmptyFragment)
    /\ (Cardinality(WithAltitude) = 2) => (ret.kind = "group" /\ Len(ret.paths) >= 1)

---------------------------------------------------------------------------
(* Properties of generate_poster (Spec).                                   *)

\* the template text that opens the group holding the marker of this name
ChartAnchor(name) ==
  CASE name = "CUSTOM_GRAPH" -> Lit("<g histogram>")
    [] name = "GPX_TRACK" -> Lit("<g map>")
    [] OTHER -> Lit("<g profile>")

\* the value substituted for the marker of this name in the poster
PosterValue(name) ==
  LET i == CHOOSE i \in DOMAIN poster : poster[i] = ChartAnchor(name)
  IN  IF i < Len(poster) /\ poster[i + 1].tok = "value" THEN poster[i + 1].value
      ELSE EmptyFragment

\* C5: once the template is loaded, generate_poster returns a document for
\* every activity whose statistics format: a chart that fails to render never
\* makes generate_poster raise.
C5_RenderFailureNeverRaises ==
  ~StatisticsRaise(activity) => pc # "raised"

IsFilled(path) == path.fill # "none"

\* C10: for the activity with 10 GPS points carrying altitude and 5 valid
\* km-splits the document holds exactly one path for the track, exactly 5 rects
\* for the histogram, and a filled plus a stroke-only path for the elevation.
C10_EndToEndPrimitives ==
  (pc = "done" /\ activity.coordinates = TrackTriples /\ activity.km_splits = ValidSplits) =>
    /\ Len(PosterValue("GPX_TRACK").paths) = 1
    /\ Len(PosterValue("CUSTOM_GRAPH").rects) = PosterSplits
    /\ LET paths == PosterValue("ELEVATION_PROFILE").paths
       IN  /\ Len(paths) = 2
           /\ \E i, j \in DOMAIN paths : IsFilled(paths[i]) /\ ~IsFilled(paths[j])

---------------------------------------------------------------------------
(* Properties of the composition (Spec, SpecCompose).                      *)

\* the text sub occurs in the text s
Occurs(sub, s) ==
  \E i \in 1..(Len(s) - Len(sub) + 1) : SubSeq(s, i, i + Len(sub) - 1) = sub

\* C11: the document generate_poster returns holds no marker {{NAME}} of a
\* name of the replacements map it built, whatever the activity's fields are.
C11_NoMarkerLeft ==
  pc = "done" => \A name \in DOMAIN replacements : ~Occurs(Marker(name), poster)

\* the markers the dict replaces
KeyMarkers(repl) == {Delimited(repl[i][1]) : i \in DOMAIN repl}

IsBrace(a) == a.tok = "char"

\* what the dict cannot replace: the markers of other names, taken whole,
\* and every atom that is neither a delimiter nor the name of a key
RECURSIVE Unreplaceable(_, _)
Unreplaceable(t, repl) ==
  IF t = <<>> THEN <<>>
  ELSE IF MarkerAt(t, 1) /\ SubSeq(t, 1, 5) \notin KeyMarkers(repl)
  THEN <<SubSeq(t, 1, 5)>> \o Unreplaceable(SubSeq(t, 6, Len(t)), repl)
  ELSE IF IsBrace(t[1]) \/ Marker(t[1].name) \in KeyMarkers(repl)
  THEN Unreplaceable(Tail(t), repl)
  ELSE <<<<t[1]>>>> \o Unreplaceable(Tail(t), repl)

\* the blocks occur in s one after the other, in this order
RECURSIVE OccurInOrder(_, _)
OccurInOrder(blocks, s) ==
  IF blocks = <<>> THEN TRUE
  ELSE LET at == {i \in 1..(Len(s) - Len(blocks[1]) + 1) :
                    SubSeq(s, i, i + Len(blocks[1]) - 1) = blocks[1]}
       IN  /\ at # {}
           /\ OccurInOrder(Tail(blocks), SubSeq(s, Least(at) + Len(blocks[1]), Len(s)))

\* every delimiter of the text belongs to a marker
WellFormedText(t) ==
  \A i \in 1..Len(t) : IsBrace(t[i]) => \E j \in (i - 4)..i : j >= 1 /\ MarkerAt(t, j)

\* no value holds a delimiter
PlainValues(repl) ==
  \A i \in DOMAIN repl : \A k \in DOMAIN StrOf(repl[i][2]) : ~IsBrace(StrOf(repl[i][2])[k])

\* the text with each marker of the dict exchanged for its value, in one pass
RECURSIVE Substituted(_, _)
Substituted(t, repl) ==
  IF t = <<>> THEN <<>>
  ELSE IF MarkerAt(t, 1) /\ SubSeq(t, 1, 5) \in KeyMarkers(repl)
  THEN LET first == Least({i \in DOMAIN repl : Delimited(repl[i][1]) = SubSeq(t, 1, 5)})
       IN  StrOf(repl[first][2]) \o Substituted(SubSeq(t, 6, Len(t)), repl)
  ELSE <<t[1]>> \o Substituted(Tail(t), repl)

Orders(n) == {p \in [1..n -> 1..n] : \A i, j \in 1..n : i # j => p[i] # p[j]}

\* the result for every other order of the pairs
SameInEveryOrder ==
  LET repl == args.replacements
  IN  \A p \in Orders(Len(repl)) :
        replace_placeholders(args.content, [i \in 1..Len(repl) |-> repl[p[i]]]) = ret

\* C13 as stated: for every template text and every replacements map the
\* result is the same whatever the order in which the pairs are applied.
C13_OrderIrrelevant == pc = "done" => SameInEveryOrder

\* no two keys denote the same marker
DistinctMarkers(repl) ==
  \A i, j \in DOMAIN repl : i # j => Delimited(repl[i][1]) # Delimited(repl[j][1])

\* C13, amended: when every delimiter of the template belongs to a marker, no
\* value holds a delimiter and no two keys denote the same marker, the result
\* is the same whatever the order in which the pairs are applied.
C13_OrderIrrelevantWhenPlain ==
  (/\ pc = "done"
   /\ WellFormedText(args.content)
   /\ PlainValues(args.replacements)
   /\ DistinctMarkers(args.replacements)) => SameInEveryOrder

C13_Witness ==
  /\ pc = "done"
  /\ Len(args.replacements) = 2
  /\ WellFormedText(args.content) /\ PlainValues(args.replacements)
  /\ DistinctMarkers(args.replacements)
  /\ \A i \in 1..2 : Occurs(Delimited(args.replacements[i][1]), args.content)
  /\ args.replacements[1][2] # args.replacements[2][2]
  /\ ret = Substituted(args.content, args.replacements)

---------------------------------------------------------------------------
(* Properties of the layout scan (SpecScan).                               *)

KnownPlaceholders == {"CUSTOM_GRAPH", "GPX_TRACK", "ELEVATION_PROFILE"}

\* C14: extract_placeholder_dimensions always returns, and its result holds a
\* width and a height for the three known placeholders: one the scan left
\* unresolved has its default (95x48, 170x120, 95x48), and when the scan hit a
\* parse error the result is exactly the full default map.
C14_ScanNeverRaises ==
  /\ pc \in {"call", "structural", "proximity", "returned"}
  /\ pc = "returned" =>
       /\ KnownPlaceholders \subseteq DOMAIN placeholder_dimensions
       /\ \A name \in KnownPlaceholders :
            /\ placeholder_dimensions[name].present
            /\ name \notin DOMAIN ret.dimensions =>
                 placeholder_dimensions[name] = default_dimensions[name]
       /\ ret.raised => placeholder_dimensions = default_dimensions

\* a non-numeric rectangle attribute met after a size had been found
C14_Witness ==
  /\ pc = "returned"
  /\ ret.raised
  /\ "CUSTOM_GRAPH" \in DOMAIN ret.dimensions
  /\ ret.dimensions["CUSTOM_GRAPH"] # default_dimensions["CUSTOM_GRAPH"]
  /\ \E i \in DOMAIN template_content : template_content[i] = PercentRect
  /\ placeholder_dimensions = default_dimensions

\* C20: in the map extract_placeholder_dimensions returns no two placeholders
\* take their size from the same rectangle element, whichever pass resolved
\* them.
C20_NoSharedRectangle ==
  (pc = "returned" /\ ~ret.raised) =>
    \A a, b \in DOMAIN ret.source :
      (a # b /\ ret.source[a] # 0) => ret.source[a] # ret.source[b]

---------------------------------------------------------------------------
(* Claims on the colour palette.                                           *)

\* '#' followed by exactly six hexadecimal digits
WellFormedRRGGBB(color) ==
  /\ color.kind = "str"
  /\ Len(color.chars) = 7
  /\ color.chars[1] = "#"
  /\ \A i \in 2..7 : IsHexDigit(color.chars[i])

\* C17: _darken_color never raises, and an input that is not a well-formed
\* #RRGGBB colour comes back exactly as it was given, leading '#' included.
C17_MalformedReturnedUnchanged ==
  pc = "done" =>
    /\ ~ret.raised
    /\ ~WellFormedRRGGBB(args.hex_color) => ret.value = args.hex_color

RecognisedInvalid(color_dict) ==
  \E i \in DOMAIN color_dict :
    /\ color_dict[i][1] \in valid_keys
    /\ ~(color_dict[i][2].kind = "str" /\ MatchesHexPattern(color_dict[i][2].chars))

Constructed == pc \in {"ready", "raised"}

NoTileFetched ==
  /\ pc = "returned"
  /\ composite.grid.tile_width > 0
  /\ composite.tiles_fetched = 0

\* C19: a failed tile fetch does not fail the call, and when every fetch
\* fails the call returns what the non-tiled renderer returns, not a fragment
\* with a background image.
C19_TotalFailureFallsBack ==
  NoTileFetched =>
    /\ "image" \notin DOMAIN ret
    /\ ret = create_elevation_profile_svg(args.coordinates, args.dimensions)

---------------------------------------------------------------------------
(* Order and precedence in the layout scan (SpecScan).                     *)

NameAt(j) == template_content[j + 2].name

\* the proximity pass binds a rectangle to GPX_TRACK in this step
BindsMapRect ==
  /\ pc = "proximity"
  /\ "GPX_TRACK" \notin DOMAIN ret.dimensions
  /\ "GPX_TRACK" \in DOMAIN ret'.dimensions
  /\ ret'.source["GPX_TRACK"] # 0

\* the rectangle of CUSTOM_GRAPH was claimed in the proximity pass
GraphRectClaimed(s) ==
  /\ "CUSTOM_GRAPH" \in DOMAIN s.source
  /\ s.source["CUSTOM_GRAPH"] # 0
  /\ template_content[s.source["CUSTOM_GRAPH"]] \in s.used_rects

CustomGraphFirst ==
  pc = "proximity" =>
    \A i, k \in DOMAIN ret.placeholder_matches :
      (i < k /\ NameAt(ret.placeholder_matches[k]) = "CUSTOM_GRAPH")
        => NameAt(ret.placeholder_matches[i]) = "CUSTOM_GRAPH"

\* C21: in the proximity pass every occurrence of CUSTOM_GRAPH is gone
\* through before any occurrence of GPX_TRACK, and the rectangle the pass
\* bound to CUSTOM_GRAPH is never the one it binds to GPX_TRACK.
C21_GraphBeforeMap ==
  /\ []CustomGraphFirst
  /\ [][BindsMapRect =>
          /\ \A k \in DOMAIN ret.placeholder_matches :
               NameAt(ret.placeholder_matches[k]) # "CUSTOM_GRAPH"
          /\ GraphRectClaimed(ret) =>
               /\ ret'.source["GPX_TRACK"] # ret.source["CUSTOM_GRAPH"]
               /\ template_content[ret'.source["GPX_TRACK"]]
                    # template_content[ret.source["CUSTOM_GRAPH"]]]_vars

\* GPX_TRACK stands before CUSTOM_GRAPH in the text, both were resolved by
\* the proximity pass, and the rectangle of CUSTOM_GRAPH lies in the
\* 800-character window of GPX_TRACK with a larger area than the one
\* GPX_TRACK received
C21_Witness ==
  /\ pc = "returned" /\ ~ret.raised
  /\ GraphRectClaimed(ret)
  /\ "GPX_TRACK" \in DOMAIN ret.source /\ ret.source["GPX_TRACK"] # 0
  /\ template_content[ret.source["GPX_TRACK"]] \in ret.used_rects
  /\ \E g, m \in DOMAIN template_content :
       /\ MarkerAt(template_content, g) /\ NameAt(g) = "CUSTOM_GRAPH"
       /\ MarkerAt(template_content, m) /\ NameAt(m) = "GPX_TRACK"
       /\ m < g
       /\ ret.source["CUSTOM_GRAPH"] < m
       /\ Offset(template_content, ret.source["CUSTOM_GRAPH"])
            >= Offset(template_content, m) - 800
  /\ RLt(RMul(ret.dimensions["GPX_TRACK"].width, ret.dimensions["GPX_TRACK"].height),
         RMul(ret.dimensions["CUSTOM_GRAPH"].width, ret.dimensions["CUSTOM_GRAPH"].height))

\* C22: first match wins: once a placeholder name has a region size, no later
\* match for that name (a later group of the structural pass, a later marker
\* of the proximity pass) and no default changes it.
C22_FirstMatchWins ==
  /\ [][\A name \in DOMAIN ret.dimensions :
          /\ name \in DOMAIN ret'.dimensions
          /\ ret'.dimensions[name] = ret.dimensions[name]]_vars
  /\ []((pc = "returned" /\ ~ret.raised) =>
          \A name \in DOMAIN ret.dimensions :
            placeholder_dimensions[name] = ret.dimensions[name])


---------------------------------------------------------------------------
(* The range of the bar heights (SpecHist).                                *)

\* visual_components.py:123, the height left for the bars of the call
HistChartHeight ==
  RSub(calculate_responsive_dimensions(args.dimensions, Num(95), Num(48)).height,
       Num(10))

\* visual_components.py:124, the guaranteed minimum height of a bar
HistMinBarHeight == RMax(Num(3), RMul(HistChartHeight, Rat(8, 100)))

\* C23: for every region size and every non-empty list of kept paces,
\* 0 < min_bar_height <= chart_height and every emitted bar height lies in
\* [min_bar_height, chart_height], also when all kept paces are equal.
C23_BarsWithinChart ==
  (pc = "done" /\ WellFormedSplits /\ ret.kind = "group") =>
    /\ RLt(Zero, HistMinBarHeight)
    /\ RLe(HistMinBarHeight, HistChartHeight)
    /\ \A i \in DOMAIN ret.rects :
         /\ RLe(HistMinBarHeight, ret.rects[i].height)
         /\ RLe(ret.rects[i].height, HistChartHeight)

---------------------------------------------------------------------------
(* SpecBudget: the tile budget of create_gpx_osm_overlay_svg applied to    *)
(* every grid of up to MaxGrid x MaxGrid tiles.                            *)

MaxGrid == 17

\* visual_components.py:958-959, the grid that covers the track is at least 1x1
AtLeastOne(n) == IF n > 1 THEN n ELSE 1

\* visual_components.py:986-988, the tiles the two loops ask the server for
RequestedTiles(grid) ==
  {<<tile_x, tile_y>> : tile_x \in 0..(grid[1] - 1), tile_y \in 0..(grid[2] - 1)}

InitBudget ==
  /\ pc = "call"
  /\ args \in [across : 1..MaxGrid, down : 1..MaxGrid]
  /\ ret = [tile_width |-> 0, tile_height |-> 0, requested |-> 0]
  /\ PosterIdle

\* visual_components.py:958-988
BudgetTiles ==
  /\ pc = "call"
  /\ LET limited == LimitTiles(AtLeastOne(args.across), AtLeastOne(args.down))
     IN  ret' = [tile_width |-> limited[1], tile_height |-> limited[2],
                 requested |-> Cardinality(RequestedTiles(limited))]
  /\ pc' = "done"
  /\ UNCHANGED args
  /\ PosterUnchanged

NextBudget == BudgetTiles

SpecBudget == InitBudget /\ [][NextBudget]_vars

\* C24: after the budget reduction the grid is at least 1x1 and holds at most
\* 16 tiles, and that many tiles are requested, for every initial grid size.
C24_AtMostSixteenTiles ==
  (pc = "done") =>
    /\ ret.tile_width >= 1
    /\ ret.tile_height >= 1
    /\ ret.tile_width * ret.tile_height <= max_tiles
    /\ ret.requested = ret.tile_width * ret.tile_height
    /\ ret.requested <= 16

\* a 5x5 grid has been cut to 4x4, and a 17x1 grid to 4x1
C24_Witness ==
  /\ pc = "done"
  /\ \/ args = [across |-> 5, down |-> 5] /\ ret.tile_width = 4 /\ ret.tile_height = 4
     \/ args = [across |-> MaxGrid, down |-> 1] /\ ret.tile_width = 4 /\ ret.tile_height = 1

---------------------------------------------------------------------------
(* SpecUpdate: a ColorPalette is constructed, then updated with further    *)
(* mappings and asked for colours; args holds the mapping of the last call. *)

UpdateValues ==
  {HexStr(<<"#", "f", "8", "0">>),
   HexStr(<<"#", "F", "F", "8", "0", "0", "0">>),
   HexStr(<<"r", "e", "d">>)}
UpdateDicts == {d \in ColorDicts : \A i \in DOMAIN d : d[i][2] \in UpdateValues}

\* palette.update_colors(color_dict), color_palette.py:205-212; the caller
\* keeps the palette when the call raises
UpdateColors ==
  /\ pc = "ready"
  /\ \E color_dict \in UpdateDicts :
       LET applied == set_colors(custom_colors, color_dict)
       IN  /\ args' = [color_dict |-> color_dict]
           /\ custom_colors' = applied.custom_colors
           /\ ret' = [raised |-> applied.raised, value |-> NoneColor]
  /\ UNCHANGED <<pc, activity, template_content, placeholder_dimensions, replacements,
                 components, poster, composite,
              user_service, strava_service, network, files, now>>

NextUpdate == Construct \/ UpdateColors \/ GetColor \/ GetStrokeColor

SpecUpdate == InitPalette /\ [][NextUpdate]_vars

\* C30: update_colors and construction are all-or-nothing: when the call
\* raises ValueError the custom colours are the ones from before the call, so
\* no valid entry that preceded the invalid one has been applied.
C30_AllOrNothing ==
  [][((Construct \/ UpdateColors) /\ ret'.raised) =>
       custom_colors' = custom_colors]_vars

---------------------------------------------------------------------------
(* The Strava client behind a StravaService (services/strava_service.py,   *)
(* strava/client.py, strava/auth.py). The token endpoint numbers the       *)
(* tokens it issues: Tokens(g) stands for the g-th access and refresh      *)
(* token. The clock is read through its comparisons only: a call is told   *)
(* whether time.time() has reached the reset time of each window, and      *)
(* network.expired holds the tokens whose expiry time has passed.          *)
(* network.sent_15min and network.sent_daily count the requests the client *)
(* has sent to the API since it began its present windows.                 *)

MaxRefresh == 2
MaxCalls == 3

limit_15min == 100
limit_daily == 1000

Tokens(g) == [access_token |-> g, refresh_token |-> g]

\* strava_service.py:35-49: StravaClient(...), set_access_token,
\* set_token_update_callback
NewClient(strava_tokens) ==
  [tokens |-> strava_tokens,
   rate_limit_15min |-> [count |-> 0],
   rate_limit_daily |-> [count |-> 0],
   token_update_callback |-> "_on_token_updated"]

\* strava/models.py:206-210, StravaTokens.is_expired
IsExpired(w) == w.client.tokens.access_token \in w.network.expired

\* strava_service.py:53-66 is a coroutine function: the call of client.py:72
\* makes a coroutine object and returns it; nothing awaits it, so the body
\* with store_strava_tokens (line 58) does not run
OnTokenUpdated(w, tokens) == [w EXCEPT !.unawaited = Append(@, tokens)]

\* client.py:68-72
OnTokensUpdated(w, tokens) ==
  LET updated == [w EXCEPT !.client.tokens = tokens]
  IN  IF updated.client.token_update_callback = "_on_token_updated"
      THEN OnTokenUpdated(updated, tokens)
      ELSE updated

\* client.py:116-130 with auth.py:120-168: the token endpoint answers 200
\* with new tokens, or the refresh raises
RefreshAccessToken(w, refreshed) ==
  IF refreshed
  THEN LET tokens == Tokens(w.network.issued + 1)
       IN  OnTokensUpdated([w EXCEPT !.network.issued = @ + 1], tokens)
  ELSE [w EXCEPT !.raised = "StravaAuthException"]

\* client.py:196-219
EnsureValidToken(w, refreshed) ==
  IF IsExpired(w)
  THEN LET got == RefreshAccessToken(w, refreshed)
       IN  IF got.raised # "" THEN [got EXCEPT !.raised = "StravaTokenExpiredException"]
           ELSE got
  ELSE w

\* client.py:169-192
GetRateLimitStatus(w, reset_15min, reset_daily) ==
  [w EXCEPT !.client.rate_limit_15min.count = IF reset_15min THEN 0 ELSE @,
            !.client.rate_limit_daily.count = IF reset_daily THEN 0 ELSE @,
            !.network.sent_15min = IF reset_15min THEN 0 ELSE @,
            !.network.sent_daily = IF reset_daily THEN 0 ELSE @]

\* client.py:262 and 283: requests.request has sent the request
SendRequest(w) ==
  [w EXCEPT !.network.sent_15min = @ + 1, !.network.sent_daily = @ + 1]

\* client.py:265-266 and 284-285
CountRequest(w) ==
  [w EXCEPT !.client.rate_limit_15min.count = @ + 1,
            !.client.rate_limit_daily.count = @ + 1]

Raise(w, exception) == [w EXCEPT !.raised = exception]

\* client.py:291-309
Respond(w, status) ==
  IF status = 404 THEN Raise(w, "StravaDataNotFoundException")
  ELSE IF status >= 400 THEN Raise(w, "StravaAPIException")
  ELSE w

\* what requests.request does: a response with a status code, or (0) a
\* RequestException raised before anything was sent
Statuses == {0, 200, 401, 404, 429, 500}

\* client.py:276-289: the answer was 401
RetryAfterRefresh(w, refreshed, retry_status) ==
  LET got == RefreshAccessToken(w, refreshed)
  IN  IF got.raised # "" \/ retry_status = 0
      THEN Raise(got, "StravaAuthException")
      ELSE Respond(CountRequest(SendRequest(got)), retry_status)

\* client.py:221-312
MakeAuthenticatedRequest(w, reset_15min, reset_daily, refreshed, status, refreshed_again, retry_status) ==
  LET valid == EnsureValidToken(w, refreshed)
      checked == GetRateLimitStatus(valid, reset_15min, reset_daily)
  IN  IF valid.raised # "" THEN valid
      ELSE IF checked.client.rate_limit_15min.count >= limit_15min
      THEN Raise(checked, "StravaRateLimitException")
      ELSE IF checked.client.rate_limit_daily.count >= limit_daily
      THEN Raise(checked, "StravaRateLimitException")
      ELSE IF status = 0 THEN Raise(checked, "StravaNetworkException")
      ELSE LET counted == CountRequest(SendRequest(checked))
           IN  IF status = 429 THEN Raise(counted, "StravaRateLimitException")
               ELSE IF status = 401
               THEN RetryAfterRefresh(counted, refreshed_again, retry_status)
               ELSE Respond(counted, status)

---------------------------------------------------------------------------
(* SpecClient: a StravaService whose client has used part of its windows   *)
(* makes requests while tokens expire, and later services are created for  *)
(* the same user.                                                          *)

UsedRequests ==
  {<<0, 0>>, <<limit_15min - 2, limit_15min - 2>>, <<0, limit_daily - 2>>,
   <<limit_15min - 2, limit_daily - 2>>}

InitClient ==
  /\ pc = "ready"
  /\ args = <<>>
  /\ ret = [raised |-> ""]
  /\ activity = NoActivity
  /\ template_content = <<>>
  /\ placeholder_dimensions = <<>>
  /\ replacements = <<>>
  /\ components = <<>>
  /\ poster = <<>>
  /\ custom_colors = <<>>
  /\ composite = <<>>
  /\ files = <<>>
  /\ now = 0
  /\ user_service = [users |-> <<[strava_tokens |-> Tokens(0)]>>]
  /\ \E used \in UsedRequests :
       /\ strava_service =
            [client |-> [NewClient(Tokens(0)) EXCEPT
                           !.rate_limit_15min.count = used[1],
                           !.rate_limit_daily.count = used[2]],
             unawaited |-> <<>>]
       /\ network = [issued |-> 0, expired |-> {}, calls |-> 0,
                     sent_15min |-> used[1], sent_daily |-> used[2]]

ClientUnchanged ==
  UNCHANGED <<pc, args, activity, template_content, placeholder_dimensions,
              replacements, components, poster, custom_colors, composite, files, now>>

\* a later StravaService(user) and its first _get_strava_client,
\* strava_service.py:20-51
GetStravaClient ==
  /\ strava_service' =
       [strava_service EXCEPT
          !.client = NewClient(user_service.users[1].strava_tokens)]
  /\ network' = [network EXCEPT !.sent_15min = 0, !.sent_daily = 0]
  /\ ret' = [raised |-> ""]
  /\ UNCHANGED user_service
  /\ ClientUnchanged

\* time.time() reaches expires_at - 300 of the client's tokens
TokenExpires ==
  /\ strava_service.client.tokens.access_token \notin network.expired
  /\ network' = [network EXCEPT
                   !.expired = @ \cup {strava_service.client.tokens.access_token}]
  /\ UNCHANGED <<ret, user_service, strava_service>>
  /\ ClientUnchanged

\* client.get_athlete(), client.py:316-323
GetAthlete ==
  /\ network.calls < MaxCalls
  /\ \E reset_15min, reset_daily, refreshed, refreshed_again \in BOOLEAN :
     \E status, retry_status \in Statuses :
       LET w == MakeAuthenticatedRequest(
                  [client |-> strava_service.client,
                   unawaited |-> strava_service.unawaited,
                   network |-> network, raised |-> ""],
                  reset_15min, reset_daily, refreshed, status,
                  refreshed_again, retry_status)
       IN  /\ w.network.issued <= MaxRefresh
           /\ strava_service' = [client |-> w.client, unawaited |-> w.unawaited]
           /\ network' = [w.network EXCEPT !.calls = @ + 1]
           /\ ret' = [raised |-> w.raised]
  /\ UNCHANGED user_service
  /\ ClientUnchanged

NextClient == GetStravaClient \/ TokenExpires \/ GetAthlete

SpecClient == InitClient /\ [][NextClient]_vars

\* C25: after a refresh the tokens stored for the user are the refreshed
\* ones, so that a later StravaService starts from them: the stored tokens
\* are always the last ones the token endpoint issued.
C25_StoredTokensAreRefreshed ==
  user_service.users[1].strava_tokens = Tokens(network.issued)

\* C26: the client sends at most 100 requests in one of its 15-minute
\* windows and 1000 in one daily window, every request it sends is counted,
\* and once a counter is at its limit nothing is sent before the reset.
C26_WithinRateLimits ==
  /\ [](/\ network.sent_15min <= limit_15min
        /\ network.sent_daily <= limit_daily
        /\ strava_service.client.rate_limit_15min.count = network.sent_15min
        /\ strava_service.client.rate_limit_daily.count = network.sent_daily)
  /\ [][(\/ network.sent_15min >= limit_15min
         \/ network.sent_daily >= limit_daily) =>
          /\ network'.sent_15min <= network.sent_15min
          /\ network'.sent_daily <= network.sent_daily]_vars

---------------------------------------------------------------------------
(* The in-memory user service (services/user_service.py, models/session.py)*)
(* Time is counted in minutes. The values of secrets.token_urlsafe(32) are *)
(* numbered in the order in which they are drawn, each one new, the state  *)
(* values and the session tokens apart. The service's coroutines have no   *)
(* await inside, so each runs as one step.                                 *)

state_minutes == 10
session_minutes == 10080

\* InMemoryUserService(), user_service.py:20-26
NoUserData ==
  [users |-> <<>>, sessions |-> <<>>, oauth_states |-> <<>>,
   states_drawn |-> 0, sessions_drawn |-> 0]

\* models/session.py:21-23 and 38-40, is_expired()
Expired(entry, utcnow) == utcnow >= entry.expires_at

\* a mapping without the keys of gone
Without(mapping, gone) == [key \in (DOMAIN mapping) \ gone |-> mapping[key]]

\* user_service.py:171-183
create_oauth_state(service, utcnow) ==
  LET state == service.states_drawn + 1
  IN  [service EXCEPT
         !.states_drawn = state,
         !.oauth_states = (state :> [expires_at |-> utcnow + state_minutes,
                                     is_used |-> FALSE]) @@ @]

\* the test without the is_used flag
RefusedWhenStale(service, state_value, utcnow) ==
  \/ state_value \notin DOMAIN service.oauth_states
  \/ Expired(service.oauth_states[state_value], utcnow)

\* user_service.py:187-189, the test that turns a value down
Refused(service, state_value, utcnow) ==
  \/ state_value \notin DOMAIN service.oauth_states
  \/ service.oauth_states[state_value].is_used
  \/ Expired(service.oauth_states[state_value], utcnow)

\* user_service.py:185-193
verify_oauth_state(service, state_value, utcnow) ==
  IF Refused(service, state_value, utcnow)
  THEN [value |-> FALSE, service |-> service]
  ELSE [value |-> TRUE,
        service |-> [service EXCEPT !.oauth_states[state_value].is_used = TRUE]]

\* user_service.py:195-221; sessions is a list of sessions in insertion order
cleanup_expired_data(service, utcnow) ==
  LET live(session) == ~(session.expires_at < utcnow)
      expired_states == {state \in DOMAIN service.oauth_states :
                           service.oauth_states[state].expires_at < utcnow}
  IN  [service EXCEPT
         !.sessions = SelectSeq(@, live),
         !.oauth_states = Without(@, expired_states)]

---------------------------------------------------------------------------
(* SpecOAuth: OAuth states are issued, presented to oauth_callback and     *)
(* cleaned up while time passes. network.accepted holds the values that    *)
(* line 79 of routers/auth.py let through, network.accepted_again the ones *)
(* it let through more than once.                                          *)

MaxStates == 2
MaxTime == 11

InitOAuth ==
  /\ pc = "ready"
  /\ args = [state_value |-> 0]
  /\ ret = [op |-> "", value |-> FALSE]
  /\ activity = NoActivity
  /\ template_content = <<>>
  /\ placeholder_dimensions = <<>>
  /\ replacements = <<>>
  /\ components = <<>>
  /\ poster = <<>>
  /\ custom_colors = <<>>
  /\ composite = <<>>
  /\ files = <<>>
  /\ strava_service = <<>>
  /\ now = 0
  /\ user_service = NoUserData
  /\ network = [accepted |-> {}, accepted_again |-> {}]

OAuthUnchanged ==
  UNCHANGED <<pc, activity, template_content, placeholder_dimensions, replacements,
              components, poster, custom_colors, composite, files, strava_service>>

\* a minute passes
Tick ==
  /\ now < MaxTime
  /\ now' = now + 1
  /\ UNCHANGED <<args, ret, user_service, network>>
  /\ OAuthUnchanged

\* await user_service.create_oauth_state(...)
CreateOAuthState ==
  /\ user_service.states_drawn < MaxStates
  /\ user_service' = create_oauth_state(user_service, now)
  /\ ret' = [op |-> "create_oauth_state", value |-> FALSE]
  /\ UNCHANGED <<args, now, network>>
  /\ OAuthUnchanged

\* routers/auth.py:77-84: a callback presents a state value, issued or not
VerifyOAuthState ==
  /\ \E state_value \in 1..(MaxStates + 1) :
       LET verified == verify_oauth_state(user_service, state_value, now)
       IN  /\ args' = [state_value |-> state_value]
           /\ user_service' = verified.service
           /\ ret' = [op |-> "verify_oauth_state", value |-> verified.value]
           /\ network' =
                IF ~verified.value THEN network
                ELSE [accepted |-> network.accepted \cup {state_value},
                      accepted_again |->
                        network.accepted_again \cup
                          (network.accepted \cap {state_value})]
  /\ UNCHANGED now
  /\ OAuthUnchanged

\* await user_service.cleanup_expired_data()
CleanupExpiredData ==
  /\ user_service' = cleanup_expired_data(user_service, now)
  /\ ret' = [op |-> "cleanup_expired_data", value |-> FALSE]
  /\ UNCHANGED <<args, now, network>>
  /\ OAuthUnchanged

NextOAuth == Tick \/ CreateOAuthState \/ VerifyOAuthState \/ CleanupExpiredData

SpecOAuth == InitOAuth /\ [][NextOAuth]_vars

\* the value is one that create_oauth_state issued less than 10 minutes ago
IssuedAndFresh(state_value) ==
  /\ state_value \in DOMAIN user_service.oauth_states
  /\ now < user_service.oauth_states[state_value].expires_at

\* C27: a state value is accepted at most once; a value that was accepted
\* before, an unknown value and a value past its 10-minute expiry are turned
\* down, whatever cleanup_expired_data has removed in between.
C27_StateAcceptedOnce ==
  /\ [](network.accepted_again = {})
  /\ [][(VerifyOAuthState /\ ret'.value) =>
          /\ IssuedAndFresh(args'.state_value)
          /\ args'.state_value \notin network.accepted]_vars

\* a value that was accepted, is still stored and is not yet expired has
\* been presented again and turned down
C27_Witness ==
  /\ ret = [op |-> "verify_oauth_state", value |-> FALSE]
  /\ args.state_value \in network.accepted
  /\ IssuedAndFresh(args.state_value)

---------------------------------------------------------------------------
(* Sessions of the user service and the OAuth callback (routers/auth.py).  *)

\* user_service.py:32-37; users is the list of users by id
get_user_by_strava_id(service, strava_id) ==
  LET found == {user_id \in DOMAIN service.users :
                  service.users[user_id].strava_id = strava_id}
  IN  IF found = {} THEN 0 ELSE CHOOSE user_id \in found : TRUE

\* user_service.py:39-66
create_user_from_strava(service, strava_id) ==
  [service EXCEPT
     !.users = Append(@, [strava_id |-> strava_id, strava_tokens |-> Tokens(0)])]

\* user_service.py:93-113
store_strava_tokens(service, user_id, tokens) ==
  IF user_id \notin DOMAIN service.users THEN service
  ELSE [service EXCEPT !.users[user_id].strava_tokens = tokens]

\* user_service.py:120-138: the new token is a new key of the sessions dict,
\* so the session goes to the end of its insertion order
create_user_session(service, user_id, utcnow) ==
  LET session_token == service.sessions_drawn + 1
  IN  [service EXCEPT
         !.sessions_drawn = session_token,
         !.sessions = Append(@, [session_id |-> session_token,
                                 user_id |-> user_id,
                                 expires_at |-> utcnow + session_minutes,
                                 created_at |-> utcnow])]

\* user_service.py:164-169: the first session of the user, in the order of
\* sessions.values(), that is not expired; 0 stands for None
get_session_for_user(service, user_id, utcnow) ==
  LET matching == {i \in DOMAIN service.sessions :
                     /\ service.sessions[i].user_id = user_id
                     /\ ~Expired(service.sessions[i], utcnow)}
  IN  IF matching = {} THEN 0
      ELSE service.sessions[CHOOSE i \in matching : \A j \in matching : i <= j].session_id

\* routers/auth.py:77-217: the callback for an athlete; exchanged tells
\* whether the token exchange and get_athlete of lines 92-106 went through
oauth_callback(service, state_value, strava_id, exchanged, utcnow) ==
  LET verified == verify_oauth_state(service, state_value, utcnow)
      known == get_user_by_strava_id(verified.service, strava_id)
      with_user == IF known = 0 THEN create_user_from_strava(verified.service, strava_id)
                   ELSE verified.service
      user_id == IF known = 0 THEN Len(with_user.users) ELSE known
      stored == store_strava_tokens(with_user, user_id, Tokens(0))
      with_session == create_user_session(stored, user_id, utcnow)
  IN  IF ~verified.value \/ ~exchanged
      THEN [raised |-> TRUE, cookie |-> 0, created |-> 0, service |-> verified.service]
      ELSE [raised |-> FALSE,
            cookie |-> get_session_for_user(with_session, user_id, utcnow),
            created |-> with_session.sessions_drawn,
            service |-> with_session]

---------------------------------------------------------------------------
(* SpecSession: athletes log in through the OAuth callback, again and      *)
(* again, while sessions are cleaned up and a week passes.                 *)

MaxSessions == 3

Athletes == {7, 8}

InitSession == InitOAuth

\* the lifetime of a session passes
WeekPasses ==
  /\ now < session_minutes
  /\ now' = now + session_minutes
  /\ UNCHANGED <<args, ret, user_service, network>>
  /\ OAuthUnchanged

\* GET /callback?code=...&state=...
OAuthCallback ==
  /\ user_service.sessions_drawn < MaxSessions
  /\ \E state_value \in 1..MaxStates, strava_id \in Athletes, exchanged \in BOOLEAN :
       LET response == oauth_callback(user_service, state_value, strava_id,
                                      exchanged, now)
       IN  /\ args' = [state_value |-> state_value]
           /\ user_service' = response.service
           /\ ret' = [op |-> "oauth_callback", value |-> ~response.raised,
                      cookie |-> response.cookie, created |-> response.created]
  /\ UNCHANGED <<now, network>>
  /\ OAuthUnchanged

NextSession == CreateOAuthState \/ OAuthCallback \/ CleanupExpiredData \/ WeekPasses

SpecSession == InitSession /\ [][NextSession]_vars

\* C28: the cookie set by a callback that went through carries the id of the
\* session created in that callback, also when the user has older live
\* sessions.
C28_CookieCarriesNewSession ==
  (ret.op = "oauth_callback" /\ ret.value) => ret.cookie = ret.created

---------------------------------------------------------------------------
(* PosterService.generate_poster (services/poster_service.py). files is    *)
(* the directory generated_posters: the size in bytes of each file in it.  *)
(* One user asks for posters; time.time() and the length of the SVG text   *)
(* are inputs of the call.                                                 *)

MaxStamp == 3

FormatTypes == {"png", "PNG", "svg", "SVG", "pdf"}
SvgSizes == {120, 250}

\* str.lower() on the format names
Lower(format_type) ==
  CASE format_type = "PNG" -> "png"
    [] format_type = "SVG" -> "svg"
    [] OTHER -> format_type

\* poster_service.py:42-45, generated_posters/strava_poster_user_1_<timestamp>.svg
SvgPath(timestamp) == [timestamp |-> timestamp, suffix |-> "svg"]

NoPath == [timestamp |-> 0, suffix |-> ""]

\* poster_service.py:93-102: the conversion is switched off and gives the
\* SVG path back
convert_to_png(svg_path) == svg_path

\* poster_service.py:79-91
FailedPoster(directory) ==
  [result |-> [status |-> "failed", file_path |-> NoPath, file_size |-> 0],
   files |-> directory]

\* poster_service.py:28-91; svg_size is 0 when SVGGenerator raises
generate_poster(directory, svg_size, format_type, timestamp) ==
  IF svg_size = 0 THEN FailedPoster(directory)
  ELSE
    LET svg_path == SvgPath(timestamp)
        written == (svg_path :> svg_size) @@ directory
        output_path == IF Lower(format_type) = "png" THEN convert_to_png(svg_path)
                       ELSE svg_path
        file_size == IF output_path \in DOMAIN written THEN written[output_path] ELSE 0
        cleaned == IF Lower(format_type) # "svg" /\ svg_path \in DOMAIN written
                   THEN Without(written, {svg_path})
                   ELSE written
    IN  [result |-> [status |-> "generated", file_path |-> output_path,
                     file_size |-> file_size],
         files |-> cleaned]

---------------------------------------------------------------------------
(* SpecPosterService: posters are generated one after the other in every   *)
(* format.                                                                 *)

InitPosterService ==
  /\ pc = "ready"
  /\ args = [format_type |-> "", timestamp |-> 0]
  /\ ret = [status |-> "", file_path |-> NoPath, file_size |-> 0]
  /\ activity = NoActivity
  /\ template_content = <<>>
  /\ placeholder_dimensions = <<>>
  /\ replacements = <<>>
  /\ components = <<>>
  /\ poster = <<>>
  /\ custom_colors = <<>>
  /\ composite = <<>>
  /\ user_service = <<>>
  /\ strava_service = <<>>
  /\ network = <<>>
  /\ now = 0
  /\ files = <<>>

\* await PosterService(user).generate_poster(activity_data, format_type)
GeneratePoster ==
  /\ \E svg_size \in SvgSizes \cup {0}, format_type \in FormatTypes,
        timestamp \in 1..MaxStamp :
       LET made == generate_poster(files, svg_size, format_type, timestamp)
       IN  /\ args' = [format_type |-> format_type, timestamp |-> timestamp]
           /\ ret' = made.result
           /\ files' = made.files
  /\ UNCHANGED <<pc, activity, template_content, placeholder_dimensions, replacements,
                 components, poster, custom_colors, composite, user_service,
                 strava_service, network, now>>

NextPosterService == GeneratePoster

SpecPosterService == InitPosterService /\ [][NextPosterService]_vars

\* C29: when the status is 'generated', the file at file_path exists after
\* the call and file_size is its size, for 'png' as well as for 'svg'.
C29_GeneratedFileExists ==
  (ret.status = "generated") =>
    /\ ret.file_path \in DOMAIN files
    /\ files[ret.file_path] = ret.file_size

============================================================================
